---- MODULE Spec2Model ----
\* Login anomaly scoring (utils/ml_detector.py) and geolocation / impossible
\* travel analysis (utils/geolocation.py) of sky-trace, as state machines.
\*
\* Floating point values are modelled as exact rationals [nan, num, den] with
\* den > 0, plus the IEEE not-a-number value that numpy produces for 0.0/0.0.
EXTENDS Integers, Sequences, FiniteSets, TLC

VARIABLES
    \* ---- MLAnomalyDetector.detect_anomalies ----
    df,                     \* feature table handed to detect_anomalies (rows)
    columns,                \* the column names present in df
    feature_columns,        \* self.feature_columns, set by prepare_features
    anomaly_scores,         \* raw score_samples output of the isolation forest
    isolation_scores,       \* normalized isolation scores
    dbscan_labels,          \* DBSCAN cluster labels
    statistical_anomalies,  \* rule name -> per-row indicator array
    results,                \* table returned by calculate_risk_scores
    pc,                     \* position inside detect_anomalies
    \* ---- GeolocationAnalyzer ----
    login_df,               \* login table handed to enrich_with_geolocation
    location_cache,         \* self.location_cache
    http_requests,          \* number of HTTP GETs sent, per IP address
    lookups,                \* the get_ip_location calls of the latest operation
    enriched_df,            \* table returned by enrich_with_geolocation
    travel_df,              \* table returned by detect_impossible_travel
    geo_pc,                 \* position inside the geolocation step of a run
    runs,                   \* detection runs started so far in this process
    \* ---- MLAnomalyDetector.prepare_features, categorical encoding ----
    label_encoders,         \* self.label_encoders: feature -> classes_
    cat_df,                 \* categorical columns of the latest table
    feature_matrix,         \* encoded columns of the returned feature matrix
    calls,                  \* prepare_features calls made on this detector
    \* ---- DataProcessor ----
    user_agent,             \* a user_agent cell given to the _extract_* methods
    parsed,                 \* the browser, os and device_type derived from it
    uploaded_df,            \* the table read from the file (df of the page)
    validation,             \* what validate_data returned: is_valid, errors
    df_clean,               \* table returned by clean_data
    removed,                \* the removed count clean_data reported, else 0
    df_features,            \* table returned by extract_features
    df_again,               \* result of an operation applied to its own output
    login_data,             \* st.session_state.login_data
    upload_pc,              \* position inside the upload handling
    \* ---- alert threshold and summaries ----
    risk_threshold,         \* st.session_state.risk_threshold
    high_risk_events,       \* the records shown under "High-Risk Events"
    anomaly_summary,        \* what get_anomaly_summary returned
    \* ---- SecurityReportGenerator.export_anomaly_data ----
    export_call,            \* the arguments of the latest export_anomaly_data call
    export_out,              \* what that call returned or raised
    \* ---- the session's detection results (pages/2_Anomaly_Detection.py) ----
    anomaly_results,        \* st.session_state.anomaly_results
    session_anomaly_summary,\* st.session_state.anomaly_summary
    geo_analysis,           \* st.session_state.geo_analysis
    run_pc,                 \* position inside the "Start Anomaly Detection" handler
    run_locals,              \* the handler's local variables
    \* ---- SecurityReportGenerator.generate_scheduled_report_summary (utils/report_generator.py) ----
    sched_df,               \* df: the scored table the reports page passes
    sched_now,              \* now = datetime.now(), in seconds
    scheduled_summary       \* the returned summary, <<>> before the call

ml_vars == <<df, columns, feature_columns, anomaly_scores, isolation_scores,
             dbscan_labels, statistical_anomalies, results, pc>>
geo_vars == <<login_df, location_cache, http_requests, lookups,
              enriched_df, travel_df, geo_pc, runs>>
vars == <<df, columns, feature_columns, anomaly_scores, isolation_scores,
          dbscan_labels, statistical_anomalies, results, pc,
          login_df, location_cache, http_requests, lookups,
          enriched_df, travel_df, geo_pc, runs,
          label_encoders, cat_df, feature_matrix, calls,
          user_agent, parsed,
          uploaded_df, validation, df_clean, removed, df_features, df_again,
          login_data, upload_pc,
          risk_threshold, high_risk_events, anomaly_summary,
          export_call, export_out,
          anomaly_results, session_anomaly_summary, geo_analysis, run_pc, run_locals,
          sched_df, sched_now, scheduled_summary>>
enc_vars == <<label_encoders, cat_df, feature_matrix, calls>>
\* what the detector steps and the geolocation steps leave alone
agent_vars == <<user_agent, parsed>>
upload_vars == <<uploaded_df, validation, df_clean, removed, df_features,
                 df_again, login_data, upload_pc>>
proc_vars == <<agent_vars, upload_vars>>
export_vars == <<export_call, export_out>>
session_vars == <<anomaly_results, session_anomaly_summary, geo_analysis, run_pc, run_locals>>
sched_vars == <<sched_df, sched_now, scheduled_summary>>
report_vars == <<risk_threshold, high_risk_events, anomaly_summary, export_vars, session_vars, sched_vars>>
outside_ml == <<geo_vars, enc_vars, proc_vars, report_vars>>
outside_geo == <<ml_vars, enc_vars, proc_vars, report_vars>>

\* a detector whose encoders have not been used
EncIdle ==
    /\ label_encoders = <<>>
    /\ cat_df = <<>>
    /\ feature_matrix = <<>>
    /\ calls = 0

\* export_anomaly_data has not been called
ExportIdle ==
    /\ export_call = <<>>
    /\ export_out = <<>>

\* no detection run has been made and none is in progress
SessionIdle ==
    /\ anomaly_results = <<>>
    /\ session_anomaly_summary = <<>>
    /\ geo_analysis = <<>>
    /\ run_pc = "idle"
    /\ run_locals = <<>>

\* generate_scheduled_report_summary has not been called
SchedIdle ==
    /\ sched_df = <<>>
    /\ sched_now = 0
    /\ scheduled_summary = <<>>

\* the session's default alert threshold 0.7, nothing displayed or summarised
ReportIdle ==
    /\ risk_threshold = [nan |-> FALSE, num |-> 7, den |-> 10]
    /\ high_risk_events = <<>>
    /\ anomaly_summary = <<>>
    /\ ExportIdle
    /\ SessionIdle
    /\ SchedIdle

\* the value None of a table variable
NoTable == <<>>

AgentIdle ==
    /\ user_agent = [isna |-> TRUE, tokens |-> {}]
    /\ parsed = <<>>

\* a session without uploaded data and no upload in progress
UploadIdle ==
    /\ uploaded_df = NoTable
    /\ validation = <<>>
    /\ df_clean = NoTable
    /\ removed = 0
    /\ df_features = NoTable
    /\ df_again = NoTable
    /\ login_data = NoTable
    /\ upload_pc = "idle"

\* no DataProcessor operation in progress
ProcIdle == AgentIdle /\ UploadIdle

-----------------------------------------------------------------------------
\* Bounds of the model.

\* largest number of rows of a feature table given to detect_anomalies
MaxRows == 3
\* number of distinct raw isolation-forest score levels
MaxRaw == 3
\* largest number of rows when calculate_risk_scores is exercised on its own
MaxFuseRows == 2
\* largest number of rows of a login table given to enrich_with_geolocation
MaxLogins == 3
\* largest number of rows of the login table of a repeated detection run
MaxRunLogins == 2
\* largest number of detection runs in one process
MaxRuns == 3
\* largest number of rows of a table whose categorical features are encoded
MaxEncodeRows == 3
\* largest number of prepare_features calls on one detector instance
MaxCalls == 2
\* largest number of tokens of a user-agent string
MaxTokens == 3
\* largest number of rows of an uploaded file
MaxUploadRows == 2
\* largest number of rows of a table given to clean_data directly
MaxCleanRows == 3
\* largest number of rows of a table given to extract_features directly
MaxExtractRows == 2
\* largest number of rows scored while the alert threshold is moved
MaxThresholdRows == 2
\* largest number of rows of a scored table given to get_anomaly_summary
MaxSummaryRows == 2
\* largest number of records of a table given to export_anomaly_data
MaxExportRows == 1

-----------------------------------------------------------------------------
\* Floating point numbers.

Rat(n, d) == [nan |-> FALSE, num |-> n, den |-> d]
NaN == [nan |-> TRUE, num |-> 0, den |-> 1]

Min(a, b) == IF a <= b THEN a ELSE b

RECURSIVE Gcd(_, _)
Gcd(a, b) == IF b = 0 THEN a ELSE Gcd(b, a % b)

\* the quotient n / d, d > 0, in lowest terms
Quotient(n, d) ==
    LET g == Gcd(IF n < 0 THEN -n ELSE n, d)
    IN  Rat(n \div g, d \div g)

RatAdd(a, b) ==
    IF a.nan \/ b.nan THEN NaN
    ELSE Rat(a.num * b.den + b.num * a.den, a.den * b.den)

RatMul(a, b) ==
    IF a.nan \/ b.nan THEN NaN
    ELSE Rat(a.num * b.num, a.den * b.den)

\* a >= b on floats: every comparison with NaN is False
RatGE(a, b) == ~a.nan /\ ~b.nan /\ a.num * b.den >= b.num * a.den
RatGT(a, b) == ~a.nan /\ ~b.nan /\ a.num * b.den > b.num * a.den
RatEq(a, b) == ~a.nan /\ ~b.nan /\ a.num * b.den = b.num * a.den

\* numpy true division a / b of two finite numbers with a = 0 whenever b = 0
\* (the only divisions by zero the program performs are 0.0 / 0.0 = nan)
NumpyDivide(a, b) == IF b = 0 THEN NaN ELSE Rat(a, b)

SeqMin(s) == CHOOSE v \in {s[i] : i \in DOMAIN s} : \A i \in DOMAIN s : v <= s[i]
SeqMax(s) == CHOOSE v \in {s[i] : i \in DOMAIN s} : \A i \in DOMAIN s : v >= s[i]

\* the k-th smallest element of a non-empty sequence of integers (k from 1)
SortedValue(s, k) ==
    CHOOSE v \in {s[i] : i \in DOMAIN s} :
        /\ Cardinality({i \in DOMAIN s : s[i] < v}) < k
        /\ k <= Cardinality({i \in DOMAIN s : s[i] <= v})

Abs(x) == IF x < 0 THEN -x ELSE x

Range(s) == {s[i] : i \in DOMAIN s}

-----------------------------------------------------------------------------
\* MLAnomalyDetector

numerical_features ==
    <<"hour", "day_of_week", "is_weekend", "is_business_hours",
      "login_count", "unique_ips", "unique_browsers", "unique_os",
      "hour_std", "weekend_ratio", "business_hours_ratio", "login_frequency">>

categorical_features == <<"browser", "os", "device_type">>

\* The feature values the statistical rules read.  The remaining columns are
\* present or absent (columns) but their values are read only by sklearn.
FeatureRows ==
    { [hour |-> 3,  is_weekend |-> 1, login_frequency |-> 4,
       unique_browsers |-> 4, unique_os |-> 3, unique_ips |-> 3],
      [hour |-> 12, is_weekend |-> 0, login_frequency |-> 1,
       unique_browsers |-> 1, unique_os |-> 1, unique_ips |-> 1],
      [hour |-> 23, is_weekend |-> 0, login_frequency |-> 2,
       unique_browsers |-> 2, unique_os |-> 1, unique_ips |-> 2] }

RuleColumns ==
    {"hour", "is_weekend", "login_frequency", "unique_browsers", "unique_os",
     "unique_ips"}

\* Column sets of the tables given to detect_anomalies: the least the rule
\* checks need, the rule columns, ten numerical features, and the full table
\* extract_features produces (12 numerical + 3 categorical features).
ColumnSets ==
    { {"hour", "is_weekend"},
      RuleColumns,
      {numerical_features[i] : i \in 1..10},
      {numerical_features[i] : i \in 1..12}
          \cup {categorical_features[i] : i \in 1..3} }

Tables(maxlen) == UNION {[1..n -> FeatureRows] : n \in 1..maxlen}

\* prepare_features: self.feature_columns = available numerical features, in
\* list order, followed by the encoded categorical features
FeatureColumns(cols) ==
    SelectSeq(numerical_features, LAMBDA f : f \in cols)
        \o SelectSeq(categorical_features, LAMBDA f : f \in cols)

\* detect_isolation_forest, the conversion to the 0-1 scale:
\* 1 - (scores - scores.min()) / (scores.max() - scores.min())
NormalizeScores(scores) ==
    [i \in DOMAIN scores |->
        RatAdd(Rat(1, 1),
               RatMul(Rat(-1, 1),
                      NumpyDivide(scores[i] - SeqMin(scores),
                                  SeqMax(scores) - SeqMin(scores))))]

\* PCA(n_components=min(10, n_features)).fit_transform(X): sklearn raises
\* ValueError unless n_components <= min(n_samples, n_features)
PcaThreshold == 10
n_components == 10
PcaRaises(nrows, ncols) ==
    /\ ncols > PcaThreshold
    /\ Min(n_components, ncols) > Min(nrows, ncols)

\* DBSCAN(eps=0.5, min_samples=5): a point is a core point only with at least
\* min_samples points (itself included) in its neighbourhood, so a table of
\* fewer than min_samples rows has no cluster and every label is -1
min_samples == 5
DbscanLabelings(nrows) ==
    IF nrows < min_samples
    THEN {[i \in 1..nrows |-> -1]}
    ELSE [1..nrows -> {-1, 0}]

\* DataFrame.quantile(q) with linear interpolation, q given in percent
Quantile(s, q) ==
    LET n    == Len(s)
        pos  == q * (n - 1)
        lo   == (pos \div 100) + 1
        hi   == Min(lo + 1, n)
        frac == pos % 100
    IN  Rat(100 * SortedValue(s, lo)
              + frac * (SortedValue(s, hi) - SortedValue(s, lo)), 100)

Column(d, name) ==
    [i \in DOMAIN d |->
        CASE name = "login_frequency" -> d[i].login_frequency
          [] name = "unique_ips"      -> d[i].unique_ips
          [] name = "unique_browsers" -> d[i].unique_browsers
          [] name = "unique_os"       -> d[i].unique_os
          [] name = "hour"            -> d[i].hour
          [] OTHER                    -> d[i].is_weekend]

\* statistical_anomaly_detection
StatisticalRules(cols) ==
    {"unusual_hours", "weekend_login"}
        \cup (IF "login_frequency" \in cols THEN {"high_frequency"} ELSE {})
        \cup (IF "unique_browsers" \in cols THEN {"multiple_browsers"} ELSE {})
        \cup (IF "unique_os" \in cols THEN {"multiple_os"} ELSE {})
        \cup (IF "unique_ips" \in cols THEN {"multiple_ips"} ELSE {})

\* the rules with the percentile comparisons made inclusive
RuleIndicatorsInclusive(d, cols) ==
    [rule \in StatisticalRules(cols) |->
        [i \in DOMAIN d |->
            CASE rule = "unusual_hours" -> (d[i].hour < 6) \/ (d[i].hour > 22)
              [] rule = "weekend_login" -> d[i].is_weekend = 1
              [] rule = "high_frequency" ->
                    RatGE(Rat(d[i].login_frequency, 1),
                          Quantile(Column(d, "login_frequency"), 95))
              [] rule = "multiple_browsers" -> d[i].unique_browsers > 3
              [] rule = "multiple_os" -> d[i].unique_os > 2
              [] OTHER ->
                    RatGE(Rat(d[i].unique_ips, 1),
                          Quantile(Column(d, "unique_ips"), 90))]]

RuleIndicators(d, cols) ==
    [rule \in StatisticalRules(cols) |->
        [i \in DOMAIN d |->
            CASE rule = "unusual_hours" -> (d[i].hour < 6) \/ (d[i].hour > 22)
              [] rule = "weekend_login" -> d[i].is_weekend = 1
              [] rule = "high_frequency" ->
                    RatGT(Rat(d[i].login_frequency, 1),
                          Quantile(Column(d, "login_frequency"), 95))
              [] rule = "multiple_browsers" -> d[i].unique_browsers > 3
              [] rule = "multiple_os" -> d[i].unique_os > 2
              [] OTHER ->
                    RatGT(Rat(d[i].unique_ips, 1),
                          Quantile(Column(d, "unique_ips"), 90))]]

IsDbscanOutlierNonZero(label) == IF label # 0 THEN 1 ELSE 0

\* calculate_risk_scores: (dbscan_labels == -1).astype(int)
IsDbscanOutlier(label) == IF label = -1 THEN 1 ELSE 0

AsInt(b) == IF b THEN 1 ELSE 0

\* calculate_risk_scores: sum of the indicators / len(statistical_anomalies),
\* or 0 when the dictionary is empty
RECURSIVE IndicatorSum(_, _, _)
IndicatorSum(anomalies, rules, i) ==
    IF rules = {} THEN 0
    ELSE LET r == CHOOSE x \in rules : TRUE
         IN  AsInt(anomalies[r][i]) + IndicatorSum(anomalies, rules \ {r}, i)

\* dividing by the number of rules the detector knows instead of len()
StatisticalScoreAllRules(anomalies, i) ==
    Rat(IndicatorSum(anomalies, DOMAIN anomalies, i), 6)

StatisticalScore(anomalies, i) ==
    IF Cardinality(DOMAIN anomalies) > 0
    THEN Rat(IndicatorSum(anomalies, DOMAIN anomalies, i),
             Cardinality(DOMAIN anomalies))
    ELSE Rat(0, 1)

\* calculate_risk_scores: the weighted combination
RiskScore(isolation_score, is_dbscan_outlier, statistical_score) ==
    RatAdd(RatAdd(RatMul(Rat(4, 10), isolation_score),
                  RatMul(Rat(3, 10), Rat(is_dbscan_outlier, 1))),
           RatMul(Rat(3, 10), statistical_score))

classify_risk_strict(score) ==
    IF RatGT(score, Rat(8, 10)) THEN "Critical"
    ELSE IF RatGT(score, Rat(6, 10)) THEN "High"
    ELSE IF RatGT(score, Rat(4, 10)) THEN "Medium"
    ELSE "Low"

classify_risk(score) ==
    IF RatGE(score, Rat(8, 10)) THEN "Critical"
    ELSE IF RatGE(score, Rat(6, 10)) THEN "High"
    ELSE IF RatGE(score, Rat(4, 10)) THEN "Medium"
    ELSE "Low"

ScoredTable(scores, labels, anomalies) ==
    [i \in DOMAIN scores |->
        LET outlier == IsDbscanOutlier(labels[i])
            stat    == StatisticalScore(anomalies, i)
            risk    == RiskScore(scores[i], outlier, stat)
        IN  [isolation_score   |-> scores[i],
             is_dbscan_outlier |-> outlier,
             is_rule           |-> [r \in DOMAIN anomalies |->
                                        AsInt(anomalies[r][i])],
             statistical_score |-> stat,
             risk_score        |-> risk,
             risk_level        |-> classify_risk(risk)]]

-----------------------------------------------------------------------------
\* GeolocationAnalyzer

\* An IP address string is modelled by the list its split('.') parses to;
\* <<172>> is the malformed address "172".
PrivateAddresses ==
    { <<10, 0, 0, 5>>, <<172, 16, 0, 1>>, <<172, 31, 255, 254>>,
      <<192, 168, 1, 1>>, <<127, 0, 0, 1>> }
PublicAddresses == { <<8, 8, 8, 8>>, <<172, 32, 0, 1>> }
IpAddresses == PrivateAddresses \cup PublicAddresses \cup { <<172>> }

\* the addresses that occur in login tables
TableAddresses == { <<192, 168, 1, 1>>, <<8, 8, 8, 8>>, <<172, 32, 0, 1>> }

\* What the HTTP GET to ip-api.com does: it raises (timeout, connection
\* error), answers with a status code other than 200, answers 200 with a body
\* that is not JSON, with status 'fail', with status 'success' and a lat
\* field float() rejects, or with status 'success' and usable data.
Responses ==
    {"raises", "status_500", "not_json", "status_fail", "bad_fields", "success"}

\* The data of a successful answer.  Coordinates are in thousandths of a
\* degree; isp is the set of upper-cased words of the ISP name.
ServiceData(ip) ==
    IF ip = <<8, 8, 8, 8>>
    THEN [country |-> "US", lat |-> 0, lon |-> 8993,
          isp |-> {"GOOGLE", "LLC"}, proxy |-> FALSE]
    ELSE [country |-> "DE", lat |-> 0, lon |-> 26979,
          isp |-> {"NORD", "VPN"}, proxy |-> FALSE]

\* the answers drawn for the lookups of one enrichment batch
BatchResponses == {"raises", "status_fail", "success"}

earth_radius_km == 6371

default_location(ip_address) ==
    [ip |-> ip_address, country |-> "Unknown", isp |-> {"UNKNOWN"},
     latitude |-> 0, longitude |-> 0, is_proxy |-> FALSE, is_vpn |-> FALSE]

is_private_ip_narrow(ip) ==
    IF Len(ip) = 0 THEN TRUE
    ELSE IF ip[1] = 10 THEN TRUE
    ELSE IF ip[1] = 172 /\ Len(ip) < 2 THEN TRUE
    ELSE IF ip[1] = 172 /\ 16 <= ip[2] /\ ip[2] < 31 THEN TRUE
    ELSE IF ip[1] = 192 /\ Len(ip) < 2 THEN TRUE
    ELSE IF ip[1] = 192 /\ ip[2] = 168 THEN TRUE
    ELSE FALSE

\* _is_private_ip: an IndexError or ValueError while parsing counts as private
is_private_ip(ip) ==
    IF Len(ip) = 0 THEN TRUE
    ELSE IF ip[1] = 10 THEN TRUE
    ELSE IF ip[1] = 172 /\ Len(ip) < 2 THEN TRUE
    ELSE IF ip[1] = 172 /\ 16 <= ip[2] /\ ip[2] <= 31 THEN TRUE
    ELSE IF ip[1] = 192 /\ Len(ip) < 2 THEN TRUE
    ELSE IF ip[1] = 192 /\ ip[2] = 168 THEN TRUE
    ELSE IF ip[1] = 127 THEN TRUE
    ELSE FALSE

CachePutResolvedOnly(cache, ip, location) ==
    IF location.country = "Unknown" THEN cache
    ELSE [x \in DOMAIN cache \cup {ip} |-> IF x = ip THEN location ELSE cache[x]]

\* self.location_cache[ip_address] = location
CachePut(cache, ip, location) ==
    [x \in DOMAIN cache \cup {ip} |-> IF x = ip THEN location ELSE cache[x]]

\* the location built from a 'success' body
ServiceLocation(ip_address) ==
    LET data == ServiceData(ip_address)
    IN  [ip |-> ip_address, country |-> data.country, isp |-> data.isp,
         latitude |-> data.lat, longitude |-> data.lon,
         is_proxy |-> data.proxy,
         is_vpn |-> ("VPN" \in data.isp) \/ ("PROXY" \in data.isp)]

\* get_ip_location without the try block around the request
get_ip_location_no_try(cache, ip_address, response) ==
    IF ip_address \in DOMAIN cache
    THEN [cache |-> cache, returned |-> cache[ip_address],
          requested |-> FALSE, raised |-> FALSE]
    ELSE IF is_private_ip(ip_address)
    THEN [cache |-> CachePut(cache, ip_address, default_location(ip_address)),
          returned |-> default_location(ip_address),
          requested |-> FALSE, raised |-> FALSE]
    ELSE IF response = "success"
    THEN [cache |-> CachePut(cache, ip_address, ServiceLocation(ip_address)),
          returned |-> ServiceLocation(ip_address),
          requested |-> TRUE, raised |-> FALSE]
    ELSE IF response \in {"raises", "not_json", "bad_fields"}
    THEN [cache |-> cache, returned |-> default_location(ip_address),
          requested |-> TRUE, raised |-> TRUE]
    ELSE [cache |-> CachePut(cache, ip_address, default_location(ip_address)),
          returned |-> default_location(ip_address),
          requested |-> TRUE, raised |-> FALSE]

\* get_ip_location: the new cache, the value returned, whether an HTTP request
\* was sent, and whether an exception left the method
get_ip_location(cache, ip_address, response) ==
    IF ip_address \in DOMAIN cache
    THEN [cache |-> cache, returned |-> cache[ip_address],
          requested |-> FALSE, raised |-> FALSE]
    ELSE IF is_private_ip(ip_address)
    THEN [cache |-> CachePut(cache, ip_address, default_location(ip_address)),
          returned |-> default_location(ip_address),
          requested |-> FALSE, raised |-> FALSE]
    ELSE IF response = "success"
    THEN [cache |-> CachePut(cache, ip_address, ServiceLocation(ip_address)),
          returned |-> ServiceLocation(ip_address),
          requested |-> TRUE, raised |-> FALSE]
    ELSE \* a non-200 status, a status other than 'success', or an exception
         \* raised inside the try block and caught by except Exception
         [cache |-> CachePut(cache, ip_address, default_location(ip_address)),
          returned |-> default_location(ip_address),
          requested |-> TRUE, raised |-> FALSE]

\* one entry of the call log kept in lookups
LookupEntry(ip_address, response, call) ==
    [ip |-> ip_address,
     response |-> IF call.requested THEN response ELSE "none",
     requested |-> call.requested,
     returned |-> call.returned,
     raised |-> call.raised]

CountRequest(requests, ip_address, call) ==
    IF call.requested
    THEN [requests EXCEPT ![ip_address] = @ + 1]
    ELSE requests

\* every value of the column, repeated ones included
UniqueKeepAll(s) == s

\* df['ip_address'].unique(): the distinct values in order of first appearance
RECURSIVE Unique(_)
Unique(s) ==
    IF s = <<>> THEN <<>>
    ELSE LET u == Unique(SubSeq(s, 1, Len(s) - 1))
         IN  IF s[Len(s)] \in Range(u) THEN u ELSE Append(u, s[Len(s)])

\* enrich_with_geolocation, the loop over unique_ips: one get_ip_location call
\* per address, in order; an exception leaving a call ends the loop
RECURSIVE LookupAll(_, _, _)
LookupAll(state, ips, responses) ==
    IF ips = <<>> \/ state.raised THEN state
    ELSE LET ip   == Head(ips)
             call == get_ip_location(state.cache, ip, responses[ip])
         IN  LookupAll(
                 [cache         |-> call.cache,
                  requests      |-> CountRequest(state.requests, ip, call),
                  location_data |-> IF call.raised THEN state.location_data
                                    ELSE Append(state.location_data, call.returned),
                  log           |-> Append(state.log,
                                           LookupEntry(ip, responses[ip], call)),
                  raised        |-> call.raised],
                 Tail(ips), responses)

\* enriched_df.merge(location_df, left_on='ip_address', right_on='ip',
\* how='left'): one output row per matching location row, in row order
MergeRow(row, loc) ==
    [user_id |-> row.user_id, timestamp |-> row.timestamp,
     ip_address |-> row.ip_address,
     ip |-> loc.ip, country |-> loc.country, isp |-> loc.isp,
     latitude |-> loc.latitude, longitude |-> loc.longitude,
     is_proxy |-> loc.is_proxy, is_vpn |-> loc.is_vpn]

RECURSIVE MergeLeft(_, _)
MergeLeft(rows, location_data) ==
    IF rows = <<>> THEN <<>>
    ELSE LET row     == Head(rows)
             matches == SelectSeq(location_data,
                                  LAMBDA loc : loc.ip = row.ip_address)
         IN  [k \in DOMAIN matches |-> MergeRow(row, matches[k])]
                 \o MergeLeft(Tail(rows), location_data)

\* calculate_distance for two points on the equator, where the haversine
\* formula reduces to earth_radius_km * |lon2 - lon1| with the difference in
\* radians; one radian is taken as 57296 thousandths of a degree and the
\* result is rounded to whole kilometres
calculate_distance(lat1, lon1, lat2, lon2) ==
    (earth_radius_km * Abs(lon2 - lon1) + 28648) \div 57296

\* travel_df.sort_values(['user_id', 'timestamp']): a stable sort
SortsBefore(d, i, j) ==
    \/ d[i].user_id < d[j].user_id
    \/ d[i].user_id = d[j].user_id /\ d[i].timestamp < d[j].timestamp
    \/ d[i].user_id = d[j].user_id /\ d[i].timestamp = d[j].timestamp /\ i < j

SortValues(d) ==
    [k \in DOMAIN d |->
        d[CHOOSE i \in DOMAIN d :
            Cardinality({j \in DOMAIN d : SortsBefore(d, j, i)}) = k - 1]]

\* the previous row of the sorted table, whoever its user is
PreviousLoginAnyUser(sorted, k) == IF k > 1 THEN k - 1 ELSE 0

\* detect_impossible_travel: the position of the row that iloc[i-1] yields for
\* the row at position k of the sorted table, 0 when k is its user's first row
PreviousLogin(sorted, k) ==
    IF k > 1 /\ sorted[k - 1].user_id = sorted[k].user_id THEN k - 1 ELSE 0

max_speed_kmh == 1000

\* time_diff.total_seconds() / 3600
TimeDiffHours(prev_timestamp, curr_timestamp) ==
    Quotient(curr_timestamp - prev_timestamp, 3600)

\* distance / time_diff_hours, for time_diff_hours > 0
RequiredSpeed(distance, time_diff_hours) ==
    Quotient(distance * time_diff_hours.den, time_diff_hours.num)

ExceedsMaxSpeedInclusive(required_speed) ==
    RatGE(required_speed, Rat(1000, 1))

ExceedsMaxSpeed(required_speed) == RatGT(required_speed, Rat(max_speed_kmh, 1))

SameLocationLatitudeOnly(prev_location, curr_location) ==
    prev_location.latitude = curr_location.latitude

\* prev_location and curr_location have equal latitude and equal longitude
SameLocation(prev_location, curr_location) ==
    /\ prev_location.latitude = curr_location.latitude
    /\ prev_location.longitude = curr_location.longitude

TravelRow(row, impossible, speed, distance, hours) ==
    [user_id |-> row.user_id, timestamp |-> row.timestamp,
     ip_address |-> row.ip_address,
     ip |-> row.ip, country |-> row.country, isp |-> row.isp,
     latitude |-> row.latitude, longitude |-> row.longitude,
     is_proxy |-> row.is_proxy, is_vpn |-> row.is_vpn,
     impossible_travel |-> impossible, travel_speed_kmh |-> speed,
     distance_km |-> distance, time_diff_hours |-> hours]

DetectImpossibleTravel(d) ==
    LET sorted == SortValues(d)
    IN  [k \in DOMAIN sorted |->
            LET curr == sorted[k]
                p    == PreviousLogin(sorted, k)
            IN  IF p = 0 THEN TravelRow(curr, FALSE, Rat(0, 1), 0, Rat(0, 1))
                ELSE LET prev     == sorted[p]
                         distance == calculate_distance(
                                         prev.latitude, prev.longitude,
                                         curr.latitude, curr.longitude)
                         hours    == TimeDiffHours(prev.timestamp, curr.timestamp)
                         speed    == RequiredSpeed(distance, hours)
                     IN  IF SameLocation(prev, curr) \/ hours.num <= 0
                         THEN TravelRow(curr, FALSE, Rat(0, 1), 0, Rat(0, 1))
                         ELSE TravelRow(curr, ExceedsMaxSpeed(speed), speed,
                                        distance, hours)]

-----------------------------------------------------------------------------
\* The geolocation operations.

MLIdle ==
    /\ df = <<>>
    /\ columns = {}
    /\ feature_columns = <<>>
    /\ anomaly_scores = <<>>
    /\ isolation_scores = <<>>
    /\ dbscan_labels = <<>>
    /\ statistical_anomalies = <<>>
    /\ results = <<>>
    /\ pc = "idle"

\* a direct call of get_ip_location
lookup_ip ==
    /\ geo_pc = "lookup"
    /\ \E ip \in IpAddresses, response \in Responses :
        LET call == get_ip_location(location_cache, ip, response)
        IN  /\ location_cache' = call.cache
            /\ http_requests' = CountRequest(http_requests, ip, call)
            /\ lookups' = <<LookupEntry(ip, response, call)>>
            /\ geo_pc' = IF call.raised THEN "raised" ELSE "lookup"
    /\ UNCHANGED <<login_df, enriched_df, travel_df, runs>>
    /\ UNCHANGED outside_geo

enrich_with_geolocation ==
    /\ geo_pc = "start"
    /\ LET unique_ips == Unique([i \in DOMAIN login_df |-> login_df[i].ip_address])
       IN  \E responses \in [Range(unique_ips) -> BatchResponses] :
            LET done == LookupAll([cache |-> location_cache,
                                   requests |-> http_requests,
                                   location_data |-> <<>>, log |-> <<>>,
                                   raised |-> FALSE],
                                  unique_ips, responses)
            IN  /\ location_cache' = done.cache
                /\ http_requests' = done.requests
                /\ lookups' = done.log
                /\ IF done.raised
                   THEN /\ geo_pc' = "raised"
                        /\ UNCHANGED enriched_df
                   ELSE /\ geo_pc' = "enriched"
                        /\ enriched_df' = MergeLeft(login_df, done.location_data)
    /\ UNCHANGED <<login_df, travel_df, runs>>
    /\ UNCHANGED outside_geo

detect_impossible_travel ==
    /\ geo_pc = "enriched"
    /\ travel_df' = DetectImpossibleTravel(enriched_df)
    /\ geo_pc' = "travelled"
    /\ UNCHANGED <<login_df, location_cache, http_requests, lookups, enriched_df,
                   runs>>
    /\ UNCHANGED outside_geo

\* user ids stand for strings in their sort order; timestamps are in seconds
UserIds == {1, 2}
Timestamps == {0, 3600, 7200}

LoginRowValues ==
    [user_id : UserIds, timestamp : Timestamps, ip_address : TableAddresses]

\* the tables clean_data hands on are in ascending timestamp order
LoginTables ==
    UNION {
        {t \in [1..n -> LoginRowValues] :
            \A i \in 1..(n - 1) : t[i].timestamp <= t[i + 1].timestamp}
        : n \in 1..MaxLogins }

\* a new GeolocationAnalyzer, either about to enrich a login table or about
\* to be asked for single addresses
InitGeo ==
    /\ MLIdle
    /\ EncIdle
    /\ ReportIdle
    /\ ProcIdle
    /\ location_cache = <<>>
    /\ http_requests = [ip \in IpAddresses |-> 0]
    /\ lookups = <<>>
    /\ enriched_df = <<>>
    /\ travel_df = <<>>
    /\ \/ login_df \in LoginTables /\ geo_pc = "start"
       \/ login_df = <<>> /\ geo_pc = "lookup"
    /\ runs = 0

NextGeo ==
    \/ lookup_ip
    \/ enrich_with_geolocation
    \/ detect_impossible_travel

SpecGeo == InitGeo /\ [][NextGeo]_vars

\* The detection page, run repeatedly in one process.  The session's login
\* table of a run is the one of the run before or a newly uploaded one.
RunTables ==
    UNION {
        [1..n -> {r \in LoginRowValues : r.user_id = 1 /\ r.timestamp = 0}]
        : n \in 1..MaxRunLogins }

\* "Start Anomaly Detection": every run constructs its own
\* GeolocationAnalyzer, whose location_cache starts empty
start_detection_run ==
    /\ geo_pc \in {"travelled", "raised"}
    /\ runs < MaxRuns
    /\ runs' = runs + 1
    /\ login_df' \in RunTables
    /\ location_cache' = <<>>
    /\ lookups' = <<>>
    /\ enriched_df' = <<>>
    /\ travel_df' = <<>>
    /\ geo_pc' = "start"
    /\ UNCHANGED http_requests
    /\ UNCHANGED outside_geo

InitRuns ==
    /\ MLIdle
    /\ EncIdle
    /\ ReportIdle
    /\ ProcIdle
    /\ login_df \in RunTables
    /\ location_cache = <<>>
    /\ http_requests = [ip \in IpAddresses |-> 0]
    /\ lookups = <<>>
    /\ enriched_df = <<>>
    /\ travel_df = <<>>
    /\ geo_pc = "start"
    /\ runs = 1

NextRuns ==
    \/ start_detection_run
    \/ enrich_with_geolocation
    \/ detect_impossible_travel

SpecRuns == InitRuns /\ [][NextRuns]_vars

-----------------------------------------------------------------------------
\* detect_anomalies, one action per detector step.

\* score_samples is a function of the scaled feature row: rows that agree on
\* every feature column get the same raw score
SameFeatures(d, cols, i, j) ==
    \A name \in cols \cap RuleColumns : Column(d, name)[i] = Column(d, name)[j]

RawScoreArrays(d, cols) ==
    {raw \in [DOMAIN d -> {-k : k \in 1..MaxRaw}] :
        cols \subseteq RuleColumns =>
            \A i, j \in DOMAIN d : SameFeatures(d, cols, i, j) => raw[i] = raw[j]}

prepare_features ==
    /\ pc = "start"
    /\ feature_columns' = FeatureColumns(columns)
    /\ pc' = "prepared"
    /\ UNCHANGED <<df, columns, anomaly_scores, isolation_scores,
                   dbscan_labels, statistical_anomalies, results>>
    /\ UNCHANGED outside_ml

detect_isolation_forest ==
    /\ pc = "prepared"
    /\ \E raw \in RawScoreArrays(df, columns) :
        /\ anomaly_scores' = raw
        /\ isolation_scores' = NormalizeScores(raw)
    /\ pc' = "isolation_done"
    /\ UNCHANGED <<df, columns, feature_columns, dbscan_labels,
                   statistical_anomalies, results>>
    /\ UNCHANGED outside_ml

detect_dbscan_outliers ==
    /\ pc = "isolation_done"
    /\ IF PcaRaises(Len(df), Len(feature_columns))
       THEN /\ pc' = "raised"
            /\ UNCHANGED dbscan_labels
       ELSE /\ \E labels \in DbscanLabelings(Len(df)) : dbscan_labels' = labels
            /\ pc' = "dbscan_done"
    /\ UNCHANGED <<df, columns, feature_columns, anomaly_scores,
                   isolation_scores, statistical_anomalies, results>>
    /\ UNCHANGED outside_ml

statistical_anomaly_detection ==
    /\ pc = "dbscan_done"
    /\ statistical_anomalies' = RuleIndicators(df, columns)
    /\ pc' = "statistical_done"
    /\ UNCHANGED <<df, columns, feature_columns, anomaly_scores,
                   isolation_scores, dbscan_labels, results>>
    /\ UNCHANGED outside_ml

calculate_risk_scores ==
    /\ pc = "statistical_done"
    /\ results' = ScoredTable(isolation_scores, dbscan_labels,
                              statistical_anomalies)
    /\ pc' = "returned"
    /\ UNCHANGED <<df, columns, feature_columns, anomaly_scores,
                   isolation_scores, dbscan_labels, statistical_anomalies>>
    /\ UNCHANGED outside_ml

GeoIdle ==
    /\ login_df = <<>>
    /\ location_cache = <<>>
    /\ http_requests = [ip \in IpAddresses |-> 0]
    /\ lookups = <<>>
    /\ enriched_df = <<>>
    /\ travel_df = <<>>
    /\ geo_pc = "idle"
    /\ runs = 0

\* a fresh detector about to run detect_anomalies on a feature table
InitDetect ==
    /\ df \in Tables(MaxRows)
    /\ columns \in ColumnSets
    /\ feature_columns = <<>>
    /\ anomaly_scores = <<>>
    /\ isolation_scores = <<>>
    /\ dbscan_labels = <<>>
    /\ statistical_anomalies = <<>>
    /\ results = <<>>
    /\ pc = "start"
    /\ GeoIdle
    /\ EncIdle
    /\ ReportIdle
    /\ ProcIdle

NextDetect ==
    \/ prepare_features
    \/ detect_isolation_forest
    \/ detect_dbscan_outliers
    \/ statistical_anomaly_detection
    \/ calculate_risk_scores

SpecDetect == InitDetect /\ [][NextDetect]_vars

\* calculate_risk_scores on its own: the arguments are drawn from the values
\* the detector steps can hand over, for every subset size of the rules
IsolationInputs == {Rat(0, 1), Rat(1, 1), NaN}
LabelInputs == {-1, 0, 1}
RuleSets ==
    { {},
      {"unusual_hours"},
      {"unusual_hours", "weekend_login", "high_frequency"} }

InitFuse ==
    /\ \E n \in 1..MaxFuseRows :
        /\ df = [i \in 1..n |-> CHOOSE r \in FeatureRows : r.hour = 12]
        /\ isolation_scores \in [1..n -> IsolationInputs]
        /\ dbscan_labels \in [1..n -> LabelInputs]
        /\ \E rules \in RuleSets :
              statistical_anomalies \in [rules -> [1..n -> BOOLEAN]]
    /\ columns = RuleColumns
    /\ feature_columns = FeatureColumns(RuleColumns)
    /\ anomaly_scores = <<>>
    /\ results = <<>>
    /\ pc = "statistical_done"
    /\ GeoIdle
    /\ EncIdle
    /\ ReportIdle
    /\ ProcIdle

NextFuse == calculate_risk_scores

SpecFuse == InitFuse /\ [][NextFuse]_vars

-----------------------------------------------------------------------------
\* prepare_features on one detector instance, called on one table after
\* another: the label encoders of the categorical features.

\* LabelEncoder.fit keeps the distinct values in sorted order; this is the
\* sort order of the category strings
CategoryOrder ==
    <<"Chrome", "Desktop", "Firefox", "Linux", "Safari", "Unknown", "Windows">>

Rank(c) == CHOOSE i \in DOMAIN CategoryOrder : CategoryOrder[i] = c

RECURSIVE SortedClasses(_)
\* LabelEncoder.fit: classes_ = the sorted distinct values of the column
SortedClasses(values) ==
    IF values = {} THEN <<>>
    ELSE LET least == CHOOSE v \in values : \A w \in values : Rank(v) <= Rank(w)
         IN  <<least>> \o SortedClasses(values \ {least})

\* LabelEncoder.transform: the position of the value in classes_, from 0
Code(classes, v) == (CHOOSE i \in DOMAIN classes : classes[i] = v) - 1

\* the body of the loop over categorical_features for one feature: the
\* encoder's classes_ afterwards and the <feature>_encoded column
EncodeFeature(encoders, feature, column) ==
    IF feature \notin DOMAIN encoders
    THEN LET classes == SortedClasses(Range(column))
         IN  [classes |-> classes,
              codes |-> [i \in DOMAIN column |-> Code(classes, column[i])]]
    ELSE LET known_categories == Range(encoders[feature])
             masked == [i \in DOMAIN column |->
                          IF column[i] \in known_categories
                          THEN column[i] ELSE "Unknown"]
             classes == IF "Unknown" \notin known_categories
                        THEN Append(encoders[feature], "Unknown")
                        ELSE encoders[feature]
         IN  [classes |-> classes,
              codes |-> [i \in DOMAIN column |-> Code(classes, masked[i])]]

CategoricalFeatures == Range(categorical_features)

CategoricalColumn(d, feature) == [i \in DOMAIN d |-> d[i][feature]]

\* the categorical values extract_features derives from user agents
CategoricalRows ==
    [browser : {"Chrome", "Firefox", "Safari"},
     os : {"Linux", "Windows"},
     device_type : {"Desktop"}]

CategoricalTables ==
    UNION {[1..n -> CategoricalRows] : n \in 1..MaxEncodeRows}

\* StandardScaler.fit_transform maps a column to (x - mean) / std (a constant
\* column to zeros): two columns get the same scaled values exactly when
\* they are constant together or one is a positive affine image of the other
SameScaled(a, b) ==
    /\ DOMAIN a = DOMAIN b
    /\ \A i, j \in DOMAIN a :
        /\ (a[i] = a[j]) <=> (b[i] = b[j])
        /\ (a[i] - a[j]) * (b[i] - b[j]) >= 0
    /\ \A i, j, k, l \in DOMAIN a :
        (a[i] - a[j]) * (b[k] - b[l]) = (b[i] - b[j]) * (a[k] - a[l])

\* a prepare_features call of detect_anomalies on the next table: the encoders
\* the instance already holds are reused, not refitted
encode_categorical_features ==
    /\ calls < MaxCalls
    /\ \E d \in CategoricalTables :
        LET enc == [f \in CategoricalFeatures |->
                     EncodeFeature(label_encoders, f, CategoricalColumn(d, f))]
        IN  /\ cat_df' = d
            /\ label_encoders' = [f \in CategoricalFeatures |-> enc[f].classes]
            /\ feature_matrix' = [f \in CategoricalFeatures |-> enc[f].codes]
    /\ calls' = calls + 1
    /\ UNCHANGED <<ml_vars, geo_vars, proc_vars, report_vars>>

\* a new detector: self.label_encoders = {}
InitEncode ==
    /\ MLIdle
    /\ EncIdle
    /\ ReportIdle
    /\ ProcIdle
    /\ GeoIdle

NextEncode == encode_categorical_features

SpecEncode == InitEncode /\ [][NextEncode]_vars

-----------------------------------------------------------------------------
\* DataProcessor: user-agent parsing.

\* A user-agent string is modelled by the tokens it is made of; a missing
\* cell (NaN) has isna = TRUE.
Tokens ==
    {"Mozilla", "Chrome", "Firefox", "Safari", "Edge", "OPERA", "Windows",
     "Macintosh", "Darwin", "Linux", "Android", "iPhone", "iPad", "Mobile",
     "Tablet", "X11"}

\* str.lower()
Lower(token) ==
    CASE token = "Mozilla" -> "mozilla"
      [] token = "Chrome" -> "chrome"
      [] token = "Firefox" -> "firefox"
      [] token = "Safari" -> "safari"
      [] token = "Edge" -> "edge"
      [] token = "OPERA" -> "opera"
      [] token = "Windows" -> "windows"
      [] token = "Macintosh" -> "macintosh"
      [] token = "Darwin" -> "darwin"
      [] token = "Linux" -> "linux"
      [] token = "Android" -> "android"
      [] token = "iPhone" -> "iphone"
      [] token = "iPad" -> "ipad"
      [] token = "Mobile" -> "mobile"
      [] token = "Tablet" -> "tablet"
      [] OTHER -> token

\* the substring test `keyword in text` for the keywords the parser looks for
Occurs(keyword, text) ==
    \/ keyword = text
    \/ keyword = "mac" /\ text = "macintosh"

\* `keyword in user_agent.lower()`
Contains(ua, keyword) ==
    \E token \in ua.tokens : Occurs(keyword, Lower(token))

extract_browser(ua) ==
    IF ua.isna THEN "Unknown"
    ELSE IF Contains(ua, "chrome") THEN "Chrome"
    ELSE IF Contains(ua, "firefox") THEN "Firefox"
    ELSE IF Contains(ua, "safari") /\ ~Contains(ua, "chrome") THEN "Safari"
    ELSE IF Contains(ua, "edge") THEN "Edge"
    ELSE IF Contains(ua, "opera") THEN "Opera"
    ELSE "Other"

extract_os_android_first(ua) ==
    IF ua.isna THEN "Unknown"
    ELSE IF Contains(ua, "windows") THEN "Windows"
    ELSE IF Contains(ua, "mac") \/ Contains(ua, "darwin") THEN "macOS"
    ELSE IF Contains(ua, "android") THEN "Android"
    ELSE IF Contains(ua, "linux") THEN "Linux"
    ELSE IF Contains(ua, "iphone") \/ Contains(ua, "ipad") THEN "iOS"
    ELSE "Other"

extract_os(ua) ==
    IF ua.isna THEN "Unknown"
    ELSE IF Contains(ua, "windows") THEN "Windows"
    ELSE IF Contains(ua, "mac") \/ Contains(ua, "darwin") THEN "macOS"
    ELSE IF Contains(ua, "linux") THEN "Linux"
    ELSE IF Contains(ua, "android") THEN "Android"
    ELSE IF Contains(ua, "iphone") \/ Contains(ua, "ipad") THEN "iOS"
    ELSE "Other"

extract_device_type(ua) ==
    IF ua.isna THEN "Unknown"
    ELSE IF Contains(ua, "mobile") \/ Contains(ua, "android")
            \/ Contains(ua, "iphone") THEN "Mobile"
    ELSE IF Contains(ua, "tablet") \/ Contains(ua, "ipad") THEN "Tablet"
    ELSE "Desktop"

\* the user-agent cells a login table can hold
UserAgents ==
    {[isna |-> TRUE, tokens |-> {}]}
        \cup {[isna |-> FALSE, tokens |-> ts] :
                ts \in {x \in SUBSET Tokens : Cardinality(x) <= MaxTokens}}

\* the three .apply(self._extract_*) calls of extract_features on one cell
parse_user_agent ==
    /\ parsed = <<>>
    /\ parsed' = [browser |-> extract_browser(user_agent),
                  os |-> extract_os(user_agent),
                  device_type |-> extract_device_type(user_agent)]
    /\ UNCHANGED user_agent
    /\ UNCHANGED <<ml_vars, geo_vars, enc_vars, upload_vars, report_vars>>

InitAgent ==
    /\ MLIdle
    /\ GeoIdle
    /\ EncIdle
    /\ ReportIdle
    /\ UploadIdle
    /\ user_agent \in UserAgents
    /\ parsed = <<>>

NextAgent == parse_user_agent

SpecAgent == InitAgent /\ [][NextAgent]_vars

-----------------------------------------------------------------------------
\* DataProcessor: tables, validate_data and clean_data.
\*
\* A table is [columns, rows]; a row maps each column to a cell.  Cells:
\*   timestamp   [isna, dtype, value]  dtype "str": value numbers the text
\*               read from the file; dtype "datetime": value is the instant
\*               in seconds since Monday 2024-01-15 00:00:00
\*   user_id     [isna, value]
\*   ip_address  [isna, value]         the dot-separated fields of the text
\*   user_agent  [isna, tokens]

required_columns == <<"timestamp", "user_id", "ip_address", "user_agent">>

\* the instants of the timestamp texts 1, 2, 3 ("2024-01-15 03:00:00",
\* "2024-01-15 12:00:00", "2024-01-20 12:00:00"); text 0 is not a date
TimestampInstants == <<10800, 43200, 475200>>

NaT == [isna |-> TRUE, dtype |-> "datetime", value |-> 0]

\* pd.to_datetime accepts the column when every text in it is a date
Parseable(cell) ==
    cell.isna \/ cell.dtype = "datetime" \/ cell.value \in DOMAIN TimestampInstants

to_datetime(cell) ==
    IF cell.isna THEN NaT
    ELSE IF cell.dtype = "datetime" THEN cell
    ELSE [isna |-> FALSE, dtype |-> "datetime",
          value |-> TimestampInstants[cell.value]]

ColumnParses(t) == \A i \in DOMAIN t.rows : Parseable(t.rows[i].timestamp)

\* df['timestamp'] = pd.to_datetime(df['timestamp'])
ConvertTimestamps(t) ==
    [t EXCEPT !.rows =
        [i \in DOMAIN t.rows |->
            [t.rows[i] EXCEPT !.timestamp = to_datetime(t.rows[i].timestamp)]]]

\* ip_pattern: four dot-separated decimal fields, each 0..255
MatchesIpPattern(ip) ==
    /\ Len(ip) = 4
    /\ \A k \in 1..4 : ip[k] \in 0..255

\* Series.str is available only for a column of strings: a non-empty column
\* read from a file whose every cell is empty has dtype float64
StrAccessorRaises(t) ==
    /\ t.rows # <<>>
    /\ \A i \in DOMAIN t.rows : t.rows[i].ip_address.isna

CountRows(t, P(_)) == Cardinality({i \in DOMAIN t.rows : P(t.rows[i])})

InvalidIp(row) ==
    row.ip_address.isna \/ ~MatchesIpPattern(row.ip_address.value)

\* df.isnull().sum()
NullCounts(t) ==
    [col \in t.columns |-> Cardinality({i \in DOMAIN t.rows : t.rows[i][col].isna})]

Message(kind, cols, count, null_counts) ==
    [kind |-> kind, columns |-> cols, count |-> count, null_counts |-> null_counts]

MissingColumnsFirstOnly(t) ==
    LET missing == SelectSeq(required_columns, LAMBDA col : col \notin t.columns)
    IN  IF missing = <<>> THEN <<>> ELSE <<missing[1]>>

\* missing_cols = [col for col in self.required_columns if col not in df.columns]
MissingColumns(t) ==
    SelectSeq(required_columns, LAMBDA col : col \notin t.columns)

\* validate_data(df): what it returns (or that it raised) and the table its
\* argument df refers to afterwards
validate_data_result(t) ==
    LET missing_cols == MissingColumns(t)
    IN  IF missing_cols # <<>>
        THEN [raised |-> FALSE, is_valid |-> FALSE,
              errors |-> <<Message("missing_columns", missing_cols, 0, <<>>)>>,
              df |-> t]
        ELSE
        LET empty == IF Len(t.rows) = 0
                     THEN <<Message("empty", <<>>, 0, <<>>)>> ELSE <<>>
            converted == IF ColumnParses(t) THEN ConvertTimestamps(t) ELSE t
            timestamp == IF ColumnParses(t) THEN <<>>
                         ELSE <<Message("timestamp", <<>>, 0, <<>>)>>
            invalid == CountRows(converted, InvalidIp)
            invalid_ips == IF invalid > 0
                           THEN <<Message("invalid_ips", <<>>, invalid, <<>>)>>
                           ELSE <<>>
            null_counts == NullCounts(converted)
            nulls == IF \E col \in converted.columns : null_counts[col] > 0
                     THEN <<Message("nulls", <<>>, 0, null_counts)>> ELSE <<>>
            errors == empty \o timestamp \o invalid_ips \o nulls
        IN  IF StrAccessorRaises(converted)
            THEN [raised |-> TRUE, is_valid |-> FALSE, errors |-> <<>>,
                  df |-> converted]
            ELSE [raised |-> FALSE, is_valid |-> Len(errors) = 0,
                  errors |-> errors, df |-> converted]

RowOrders(n) ==
    {p \in [1..n -> 1..n] : \A i, j \in 1..n : p[i] = p[j] => i = j}

\* sort_values('timestamp') sorts with numpy's quicksort, which is not
\* stable: rows with equal timestamps come out in an order the caller cannot
\* rely on (missing timestamps go last, in their order)
SortedByTimestamp(rows) ==
    {[i \in DOMAIN rows |-> rows[p[i]]] : p \in
        {q \in RowOrders(Len(rows)) :
            \A i, j \in DOMAIN rows : i < j =>
                LET a == rows[q[i]].timestamp
                    b == rows[q[j]].timestamp
                IN  /\ a.isna => b.isna
                    /\ (a.isna /\ b.isna) => q[i] < q[j]
                    /\ (~a.isna /\ ~b.isna) => a.value <= b.value}}

RECURSIVE DropDuplicates(_)
\* drop_duplicates(): the first of equal rows stays
DropDuplicates(rows) ==
    IF rows = <<>> THEN <<>>
    ELSE LET front == DropDuplicates(SubSeq(rows, 1, Len(rows) - 1))
             last == rows[Len(rows)]
         IN  IF \E i \in DOMAIN front : front[i] = last
             THEN front ELSE Append(front, last)

\* clean_data(df): the possible outcomes; removed is the count shown by
\* st.info, 0 when nothing is shown
CleanData(t) ==
    IF ~ColumnParses(t)
    THEN {[raised |-> TRUE, table |-> t, removed |-> 0]}
    ELSE {[raised |-> FALSE,
           table |-> [columns |-> t.columns, rows |-> DropDuplicates(sorted)],
           removed |-> Len(sorted) - Len(DropDuplicates(sorted))]
          : sorted \in SortedByTimestamp(ConvertTimestamps(t).rows)}

-----------------------------------------------------------------------------
\* DataProcessor.extract_features

DerivedColumns ==
    {"hour", "day_of_week", "is_weekend", "is_business_hours",
     "browser", "os", "device_type"}

\* the columns of user_stats besides the key user_id
StatColumns ==
    {"login_count", "first_login", "last_login", "unique_ips",
     "unique_browsers", "unique_os", "hour_std", "weekend_ratio",
     "business_hours_ratio", "days_active", "login_frequency"}

\* .dt.hour and .dt.dayofweek (Monday = 0) of an instant
Hour(cell) == (cell.value \div 3600) % 24
DayOfWeek(cell) == (cell.value \div 86400) % 7

\* the columns extract_features sets on its copy, row by row
WithDerived(row) ==
    LET hour == Hour(row.timestamp)
        day_of_week == DayOfWeek(row.timestamp)
    IN  [c \in DOMAIN row \cup DerivedColumns |->
            CASE c = "hour" -> hour
              [] c = "day_of_week" -> day_of_week
              [] c = "is_weekend" -> AsInt(day_of_week \in {5, 6})
              [] c = "is_business_hours" -> AsInt(hour >= 9 /\ hour <= 17)
              [] c = "browser" -> extract_browser(row.user_agent)
              [] c = "os" -> extract_os(row.user_agent)
              [] c = "device_type" -> extract_device_type(row.user_agent)
              [] OTHER -> row[c]]

RECURSIVE SeqSum(_)
SeqSum(s) == IF s = <<>> THEN 0 ELSE s[1] + SeqSum(Tail(s))

Values(rows, col) == [i \in DOMAIN rows |-> rows[i][col]]

\* the aggregates with the day span counted without the first day
UserStatisticsExclusiveDays(rows, user) ==
    LET mine == SelectSeq(rows, LAMBDA r : r.user_id = user)
        n == Len(mine)
        instants == [i \in DOMAIN mine |-> mine[i].timestamp.value]
        hours == Values(mine, "hour")
        first_login == SeqMin(instants)
        last_login == SeqMax(instants)
        days_active == (last_login - first_login) \div 86400
    IN  [login_count |-> n,
         first_login |-> first_login,
         last_login |-> last_login,
         unique_ips |-> Cardinality({mine[i].ip_address : i \in DOMAIN mine}),
         unique_browsers |-> Cardinality(Range(Values(mine, "browser"))),
         unique_os |-> Cardinality(Range(Values(mine, "os"))),
         hour_std |-> IF n < 2 THEN NaN
                      ELSE Quotient(n * SeqSum([i \in DOMAIN hours |-> hours[i] * hours[i]])
                                      - SeqSum(hours) * SeqSum(hours),
                                    n * (n - 1)),
         weekend_ratio |-> Quotient(SeqSum(Values(mine, "is_weekend")), n),
         business_hours_ratio |->
             Quotient(SeqSum(Values(mine, "is_business_hours")), n),
         days_active |-> days_active,
         login_frequency |-> Quotient(n, days_active)]

\* one row of _calculate_user_statistics: the aggregates of the user's
\* logins.  hour_std is kept as its square, the sample variance (ddof = 1),
\* which is NaN for a single login.
UserStatistics(rows, user) ==
    LET mine == SelectSeq(rows, LAMBDA r : r.user_id = user)
        n == Len(mine)
        instants == [i \in DOMAIN mine |-> mine[i].timestamp.value]
        hours == Values(mine, "hour")
        first_login == SeqMin(instants)
        last_login == SeqMax(instants)
        days_active == ((last_login - first_login) \div 86400) + 1
    IN  [login_count |-> n,
         first_login |-> first_login,
         last_login |-> last_login,
         unique_ips |-> Cardinality({mine[i].ip_address : i \in DOMAIN mine}),
         unique_browsers |-> Cardinality(Range(Values(mine, "browser"))),
         unique_os |-> Cardinality(Range(Values(mine, "os"))),
         hour_std |-> IF n < 2 THEN NaN
                      ELSE Quotient(n * SeqSum([i \in DOMAIN hours |-> hours[i] * hours[i]])
                                      - SeqSum(hours) * SeqSum(hours),
                                    n * (n - 1)),
         weekend_ratio |-> Quotient(SeqSum(Values(mine, "is_weekend")), n),
         business_hours_ratio |->
             Quotient(SeqSum(Values(mine, "is_business_hours")), n),
         days_active |-> days_active,
         login_frequency |-> Quotient(n, days_active)]

\* DataFrame.merge(user_stats, on='user_id', how='left'): a column name that
\* both sides have gets the suffix _x on the left and _y on the right
LeftNameSuffixAll(c) ==
    IF c \in StatColumns \cup DerivedColumns THEN c \o "_x" ELSE c

LeftName(c) == IF c \in StatColumns THEN c \o "_x" ELSE c
RightName(c, left_columns) == IF c \in left_columns THEN c \o "_y" ELSE c

MergedColumns(left_columns) ==
    {LeftName(c) : c \in left_columns}
        \cup {RightName(c, left_columns) : c \in StatColumns}

MergeUserStatistics(row, stats) ==
    LET left_columns == DOMAIN row
    IN  [name \in MergedColumns(left_columns) |->
            IF \E c \in left_columns : LeftName(c) = name
            THEN row[CHOOSE c \in left_columns : LeftName(c) = name]
            ELSE stats[CHOOSE c \in StatColumns :
                         RightName(c, left_columns) = name]]

\* .dt is available only on a datetime column, and the four required
\* columns are read by name
ExtractRaises(t) ==
    \/ \E col \in Range(required_columns) : col \notin t.columns
    \/ \E i \in DOMAIN t.rows : t.rows[i].timestamp.dtype # "datetime"

\* extract_features(df): the table it returns, unless it raises
ExtractFeatures(t) ==
    IF ExtractRaises(t) THEN [raised |-> TRUE, table |-> t]
    ELSE LET derived == [i \in DOMAIN t.rows |-> WithDerived(t.rows[i])]
         IN  [raised |-> FALSE,
              table |->
                [columns |-> MergedColumns(t.columns \cup DerivedColumns),
                 rows |-> [i \in DOMAIN derived |->
                            MergeUserStatistics(
                                derived[i],
                                UserStatistics(derived, derived[i].user_id))]]]

-----------------------------------------------------------------------------
\* The upload page and direct calls of the DataProcessor operations.

TimestampCell(dtype, value) == [isna |-> FALSE, dtype |-> dtype, value |-> value]
ValueCell(value) == [isna |-> FALSE, value |-> value]
AgentCell(tokens) == [isna |-> FALSE, tokens |-> tokens]

LoginRow(timestamp, user_id, ip_address, agent) ==
    [timestamp |-> timestamp, user_id |-> user_id,
     ip_address |-> ip_address, user_agent |-> agent]

DesktopAgent == AgentCell({"Mozilla", "Windows", "Chrome"})
PhoneAgent == AgentCell({"Mozilla", "iPhone", "Mobile", "Safari"})
PublicIp == ValueCell(<<8, 8, 8, 8>>)
OtherIp == ValueCell(<<172, 32, 0, 1>>)

\* rows of a file that passes validation
ValidRows ==
    {LoginRow(TimestampCell("str", k), ValueCell(u), PublicIp, DesktopAgent) :
        k \in {1, 2}, u \in {1}}

\* rows with one defect each: a text that is no date, an empty timestamp, a
\* malformed address, an empty address, an empty user agent, an empty user id
DefectRows ==
    LET ok == LoginRow(TimestampCell("str", 1), ValueCell(1), PublicIp, DesktopAgent)
    IN  {[ok EXCEPT !.timestamp = TimestampCell("str", 0)],
         [ok EXCEPT !.timestamp = [isna |-> TRUE, dtype |-> "str", value |-> 0]],
         [ok EXCEPT !.ip_address = ValueCell(<<256, 1, 1, 1>>)],
         [ok EXCEPT !.ip_address = [isna |-> TRUE, value |-> <<>>]],
         [ok EXCEPT !.user_agent = [isna |-> TRUE, tokens |-> {}]],
         [ok EXCEPT !.user_id = [isna |-> TRUE, value |-> 0]]}

Project(row, cols) == [c \in cols |-> row[c]]

\* the tables pd.read_csv can hand to the page: with all required columns
\* and up to MaxUploadRows rows, or with some required columns absent
UploadTables ==
    {[columns |-> Range(required_columns), rows |-> rows] :
        rows \in UNION {[1..n -> ValidRows \cup DefectRows] : n \in 0..MaxUploadRows}}
    \cup
    {[columns |-> cols, rows |-> [i \in 1..n |-> Project(row, cols)]] :
        cols \in (SUBSET Range(required_columns)) \ {Range(required_columns)},
        n \in 0..1,
        row \in {r \in ValidRows : r.user_id.value = 1 /\ r.timestamp.value = 1}}

\* df = pd.read_csv(uploaded_file)
read_csv ==
    /\ upload_pc = "idle"
    /\ run_pc = "idle"
    /\ uploaded_df' \in UploadTables
    /\ validation' = <<>>
    /\ df_clean' = NoTable
    /\ removed' = 0
    /\ df_features' = NoTable
    /\ upload_pc' = "read"
    /\ UNCHANGED <<df_again, login_data>>
    /\ UNCHANGED <<ml_vars, geo_vars, enc_vars, agent_vars, report_vars>>

\* is_valid, errors = processor.validate_data(df)
validate_data ==
    /\ upload_pc = "read"
    /\ LET result == validate_data_result(uploaded_df)
       IN  /\ uploaded_df' = result.df
           /\ validation' = IF result.raised THEN <<>>
                            ELSE [is_valid |-> result.is_valid,
                                  errors |-> result.errors]
           /\ upload_pc' = IF result.raised THEN "raised" ELSE "validated"
    /\ UNCHANGED <<df_clean, removed, df_features, df_again, login_data>>
    /\ UNCHANGED <<ml_vars, geo_vars, enc_vars, agent_vars, report_vars>>

clean_data_unchecked ==
    /\ upload_pc \in {"validated", "clean"}
    /\ \E outcome \in CleanData(uploaded_df) :
        /\ df_clean' = IF outcome.raised THEN NoTable ELSE outcome.table
        /\ removed' = outcome.removed
        /\ upload_pc' = IF outcome.raised THEN "raised"
                        ELSE IF upload_pc = "validated" THEN "cleaned"
                        ELSE "clean_done"
    /\ UNCHANGED <<uploaded_df, validation, df_features, df_again, login_data>>
    /\ UNCHANGED <<ml_vars, geo_vars, enc_vars, agent_vars, report_vars>>

\* clean_data(df), in the valid branch of the page or called directly
clean_data ==
    /\ upload_pc \in {"validated", "clean"}
    /\ upload_pc = "validated" => validation.is_valid
    /\ \E outcome \in CleanData(uploaded_df) :
        /\ df_clean' = IF outcome.raised THEN NoTable ELSE outcome.table
        /\ removed' = outcome.removed
        /\ upload_pc' = IF outcome.raised THEN "raised"
                        ELSE IF upload_pc = "validated" THEN "cleaned"
                        ELSE "clean_done"
    /\ UNCHANGED <<uploaded_df, validation, df_features, df_again, login_data>>
    /\ UNCHANGED <<ml_vars, geo_vars, enc_vars, agent_vars, report_vars>>

\* clean_data applied to the table clean_data returned
clean_data_again ==
    /\ upload_pc = "clean_done"
    /\ \E outcome \in CleanData(df_clean) :
        /\ df_again' = outcome.table
        /\ removed' = outcome.removed
    /\ upload_pc' = "clean_twice"
    /\ UNCHANGED <<uploaded_df, validation, df_clean, df_features, login_data>>
    /\ UNCHANGED <<ml_vars, geo_vars, enc_vars, agent_vars, report_vars>>

\* extract_features(df_clean), in the valid branch of the page or called
\* directly
extract_features ==
    /\ upload_pc \in {"cleaned", "extract"}
    /\ LET result == ExtractFeatures(df_clean)
       IN  /\ df_features' = IF result.raised THEN NoTable ELSE result.table
           /\ upload_pc' = IF result.raised THEN "raised"
                           ELSE IF upload_pc = "cleaned" THEN "featured"
                           ELSE "extract_done"
    /\ UNCHANGED <<uploaded_df, validation, df_clean, removed, df_again, login_data>>
    /\ UNCHANGED <<ml_vars, geo_vars, enc_vars, agent_vars, report_vars>>

\* extract_features applied to the table extract_features returned
extract_features_again ==
    /\ upload_pc = "extract_done"
    /\ LET result == ExtractFeatures(df_features)
       IN  /\ df_again' = IF result.raised THEN NoTable ELSE result.table
           /\ upload_pc' = IF result.raised THEN "raised" ELSE "extract_twice"
    /\ UNCHANGED <<uploaded_df, validation, df_clean, removed, df_features,
                   login_data>>
    /\ UNCHANGED <<ml_vars, geo_vars, enc_vars, agent_vars, report_vars>>

\* st.session_state.login_data = df_features; the script run ends and its
\* local variables are gone
save_to_session ==
    /\ upload_pc = "featured"
    /\ login_data' = df_features
    /\ upload_pc' = "idle"
    /\ uploaded_df' = NoTable
    /\ validation' = <<>>
    /\ df_clean' = NoTable
    /\ removed' = 0
    /\ df_features' = NoTable
    /\ UNCHANGED df_again
    /\ UNCHANGED <<ml_vars, geo_vars, enc_vars, agent_vars, report_vars>>

\* the else branch (validation errors are shown) and the except branch
report_failure ==
    /\ \/ upload_pc = "raised"
       \/ upload_pc = "validated" /\ ~validation.is_valid
    /\ upload_pc' = "idle"
    /\ uploaded_df' = NoTable
    /\ validation' = <<>>
    /\ df_clean' = NoTable
    /\ removed' = 0
    /\ df_features' = NoTable
    /\ UNCHANGED <<df_again, login_data>>
    /\ UNCHANGED <<ml_vars, geo_vars, enc_vars, agent_vars, report_vars>>

\* "Clear Current Data"
clear_current_data ==
    /\ upload_pc = "idle"
    /\ run_pc = "idle"
    /\ login_data # NoTable
    /\ login_data' = NoTable
    /\ anomaly_results' = NoTable
    /\ UNCHANGED <<uploaded_df, validation, df_clean, removed, df_features,
                   df_again, upload_pc>>
    /\ UNCHANGED <<session_anomaly_summary, geo_analysis, run_pc, run_locals>>
    /\ UNCHANGED <<risk_threshold, high_risk_events, anomaly_summary,
                   export_vars, sched_vars>>
    /\ UNCHANGED <<ml_vars, geo_vars, enc_vars, agent_vars>>

\* a new session on the upload page
InitUpload ==
    /\ MLIdle
    /\ GeoIdle
    /\ EncIdle
    /\ ReportIdle
    /\ ProcIdle

NextUpload ==
    \/ read_csv
    \/ validate_data
    \/ clean_data
    \/ extract_features
    \/ save_to_session
    \/ report_failure
    \/ clear_current_data

SpecUpload == InitUpload /\ [][NextUpload]_vars

\* clean_data called on a table and then on its own result.  The timestamp
\* column holds texts (a file just read) or datetimes (after validate_data).
CleanRows(dtype) ==
    {LoginRow(TimestampCell(dtype, k), ValueCell(u), PublicIp, DesktopAgent) :
        k \in (IF dtype = "str" THEN 0..3 ELSE Range(TimestampInstants)),
        u \in UserIds}

CleanTables ==
    UNION {
        {[columns |-> Range(required_columns), rows |-> rows] :
            rows \in [1..n -> CleanRows(dtype)]}
        : n \in 0..MaxCleanRows, dtype \in {"str", "datetime"} }

InitClean ==
    /\ MLIdle
    /\ GeoIdle
    /\ EncIdle
    /\ ReportIdle
    /\ AgentIdle
    /\ uploaded_df \in CleanTables
    /\ validation = <<>>
    /\ df_clean = NoTable
    /\ removed = 0
    /\ df_features = NoTable
    /\ df_again = NoTable
    /\ login_data = NoTable
    /\ upload_pc = "clean"

NextClean ==
    \/ clean_data
    \/ clean_data_again

SpecClean == InitClean /\ [][NextClean]_vars

\* extract_features called on a cleaned table and then on its own result
ExtractRows ==
    {LoginRow(TimestampCell("datetime", t), ValueCell(u), ip, agent) :
        t \in {10800, 475200}, u \in UserIds, ip \in {PublicIp, OtherIp},
        agent \in {DesktopAgent, PhoneAgent, [isna |-> TRUE, tokens |-> {}]}}

\* cleaned tables: ascending timestamps, no row twice
ExtractTables ==
    UNION {
        {[columns |-> Range(required_columns), rows |-> rows] :
            rows \in {r \in [1..n -> ExtractRows] :
                        \A i, j \in 1..n : i < j =>
                            /\ r[i].timestamp.value <= r[j].timestamp.value
                            /\ r[i] # r[j]}}
        : n \in 1..MaxExtractRows }

InitExtract ==
    /\ MLIdle
    /\ GeoIdle
    /\ EncIdle
    /\ ReportIdle
    /\ AgentIdle
    /\ uploaded_df = NoTable
    /\ validation = <<>>
    /\ df_clean \in ExtractTables
    /\ removed = 0
    /\ df_features = NoTable
    /\ df_again = NoTable
    /\ login_data = NoTable
    /\ upload_pc = "extract"

NextExtract ==
    \/ extract_features
    \/ extract_features_again

SpecExtract == InitExtract /\ [][NextExtract]_vars

-----------------------------------------------------------------------------
\* The alert threshold of the session and what is shown with it.

\* the values of the sliders: 0.1 to 1.0 in steps of 0.1
Thresholds == {Rat(k, 10) : k \in 1..10}

\* a slider whose value also moved the boundary between Medium and High
set_risk_threshold_reclassifying ==
    /\ \E new_threshold \in Thresholds :
        /\ new_threshold # risk_threshold
        /\ risk_threshold' = new_threshold
        /\ results' = [i \in DOMAIN results |->
                         [results[i] EXCEPT !.risk_level =
                            IF RatGE(results[i].risk_score, Rat(8, 10))
                                THEN "Critical"
                            ELSE IF RatGE(results[i].risk_score, new_threshold)
                                THEN "High"
                            ELSE IF RatGE(results[i].risk_score, Rat(4, 10))
                                THEN "Medium"
                            ELSE "Low"]]
    /\ UNCHANGED <<high_risk_events, anomaly_summary>>
    /\ UNCHANGED sched_vars
    /\ UNCHANGED session_vars
    /\ UNCHANGED export_vars
    /\ UNCHANGED <<df, columns, feature_columns, anomaly_scores,
                   isolation_scores, dbscan_labels, statistical_anomalies, pc>>
    /\ UNCHANGED <<geo_vars, enc_vars, proc_vars>>

\* moving a "Risk Threshold" slider (main page, detection page, reports page)
set_risk_threshold ==
    /\ \E new_threshold \in Thresholds :
        /\ new_threshold # risk_threshold
        /\ risk_threshold' = new_threshold
    /\ UNCHANGED <<high_risk_events, anomaly_summary>>
    /\ UNCHANGED sched_vars
    /\ UNCHANGED session_vars
    /\ UNCHANGED export_vars
    /\ UNCHANGED <<ml_vars, geo_vars, enc_vars, proc_vars>>

\* results_df[results_df['risk_score'] >= risk_threshold]
HighRiskEvents(table, threshold) ==
    SelectSeq(table, LAMBDA r : RatGE(r.risk_score, threshold))

\* the "High-Risk Events" table of the detection page
show_high_risk_events ==
    /\ pc = "returned"
    /\ high_risk_events' = HighRiskEvents(results, risk_threshold)
    /\ UNCHANGED <<risk_threshold, anomaly_summary>>
    /\ UNCHANGED sched_vars
    /\ UNCHANGED session_vars
    /\ UNCHANGED export_vars
    /\ UNCHANGED <<ml_vars, geo_vars, enc_vars, proc_vars>>

\* the scoring step of a detection run in a session whose threshold the user
\* may move before and after it
InitThreshold ==
    /\ \E n \in 1..MaxThresholdRows :
        /\ df = [i \in 1..n |-> CHOOSE r \in FeatureRows : r.hour = 12]
        /\ isolation_scores \in [1..n -> {Rat(0, 1), Rat(1, 2), Rat(1, 1)}]
        /\ dbscan_labels \in [1..n -> {-1, 0}]
        /\ statistical_anomalies \in [{"unusual_hours"} -> [1..n -> BOOLEAN]]
    /\ columns = RuleColumns
    /\ feature_columns = FeatureColumns(RuleColumns)
    /\ anomaly_scores = <<>>
    /\ results = <<>>
    /\ pc = "statistical_done"
    /\ GeoIdle
    /\ EncIdle
    /\ ProcIdle
    /\ ReportIdle

NextThreshold ==
    \/ set_risk_threshold
    \/ calculate_risk_scores
    \/ show_high_risk_events

SpecThreshold == InitThreshold /\ [][NextThreshold]_vars

-----------------------------------------------------------------------------
\* MLAnomalyDetector.get_anomaly_summary

RECURSIVE RatSum(_)
RatSum(s) ==
    IF s = <<>> THEN Rat(0, 1)
    ELSE LET rest == RatSum(Tail(s))
             total == RatAdd(s[1], rest)
         IN  Quotient(total.num, total.den)

\* Series.mean(): the mean of the values that are not NaN
Mean(s) ==
    LET present == SelectSeq(s, LAMBDA x : ~x.nan)
    IN  IF present = <<>> THEN NaN
        ELSE LET total == RatSum(present)
             IN  Quotient(total.num, total.den * Len(present))

\* value_counts().to_dict(): the values that occur, each with its count
ValueCounts(s) ==
    [v \in Range(s) |-> Cardinality({i \in DOMAIN s : s[i] = v})]

AnomaliesAboveHalf(table) ==
    Cardinality({i \in DOMAIN table : RatGT(table[i].risk_score, Rat(1, 2))})

\* len(results_df[results_df['risk_score'] >= 0.5])
AnomaliesDetected(table) ==
    Cardinality({i \in DOMAIN table : RatGE(table[i].risk_score, Rat(1, 2))})

get_anomaly_summary_result(table) ==
    [total_records |-> Len(table),
     anomalies_detected |-> AnomaliesDetected(table),
     risk_level_counts |-> ValueCounts(Values(table, "risk_level")),
     avg_risk_score |-> Mean(Values(table, "risk_score")),
     high_risk_users |->
         Cardinality({table[i].user_id :
                        i \in {j \in DOMAIN table :
                                 RatGE(table[j].risk_score, Rat(7, 10))}})]

get_anomaly_summary ==
    /\ pc = "returned"
    /\ anomaly_summary = <<>>
    /\ anomaly_summary' = get_anomaly_summary_result(results)
    /\ UNCHANGED <<risk_threshold, high_risk_events>>
    /\ UNCHANGED sched_vars
    /\ UNCHANGED session_vars
    /\ UNCHANGED export_vars
    /\ UNCHANGED <<ml_vars, geo_vars, enc_vars, proc_vars>>

\* the risk scores calculate_risk_scores can produce, NaN included
SummaryScores ==
    {Rat(0, 1), Rat(3, 10), Rat(1, 2), Rat(3, 5), Rat(7, 10), Rat(1, 1), NaN}

\* the columns of a scored table that get_anomaly_summary reads
SummaryRows ==
    {[user_id |-> u, risk_score |-> s, risk_level |-> classify_risk(s)] :
        u \in UserIds, s \in SummaryScores}

\* detect_anomalies has returned a scored table
InitSummary ==
    /\ df = <<>>
    /\ columns = {}
    /\ feature_columns = <<>>
    /\ anomaly_scores = <<>>
    /\ isolation_scores = <<>>
    /\ dbscan_labels = <<>>
    /\ statistical_anomalies = <<>>
    /\ results \in UNION {[1..n -> SummaryRows] : n \in 1..MaxSummaryRows}
    /\ pc = "returned"
    /\ GeoIdle
    /\ EncIdle
    /\ ProcIdle
    /\ ReportIdle

NextSummary ==
    \/ get_anomaly_summary
    \/ set_risk_threshold

SpecSummary == InitSummary /\ [][NextSummary]_vars

-----------------------------------------------------------------------------
\* SecurityReportGenerator.export_anomaly_data

\* the columns export_anomaly_data asks for, in its order
export_columns ==
    <<"timestamp", "user_id", "ip_address", "risk_score", "risk_level",
      "city", "country", "browser", "os">>

\* column names a table given to the export can carry, in file order
ExportColumnOrder ==
    <<"timestamp", "user_id", "risk_score", "city", "hour", "is_weekend",
      "isolation_score", "is_dbscan_outlier">>

\* col.startswith('is_')
StartsWithIs(col) ==
    CASE col = "is_weekend" -> TRUE
      [] col = "is_dbscan_outlier" -> TRUE
      [] col = "is_business_hours" -> TRUE
      [] OTHER -> FALSE

\* format_type.lower()
FormatLower(format_type) ==
    CASE format_type = "CSV" -> "csv"
      [] format_type = "Csv" -> "csv"
      [] format_type = "JSON" -> "json"
      [] OTHER -> format_type

IsCsvExact(format_type) == format_type = "csv"

\* format_type.lower() == 'csv'
IsCsv(format_type) == FormatLower(format_type) = "csv"

\* [col for col in export_columns if col in df.columns], after the is_ columns
\* of df were appended to export_columns
AvailableColumns(table) ==
    LET anomaly_columns == SelectSeq(table.columns, StartsWithIs)
        wanted == export_columns \o anomaly_columns
    IN  SelectSeq(wanted, LAMBDA col : col \in Range(table.columns))

\* export_df.to_csv(index=False): a header line, then one line per record
ToCsv(table, cols) ==
    [header |-> cols,
     records |-> [i \in DOMAIN table.rows |->
                    [k \in DOMAIN cols |-> table.rows[i][cols[k]]]]]

export_anomaly_data_result(table, format_type) ==
    IF IsCsv(format_type)
    THEN [raised |-> FALSE, data |-> ToCsv(table, AvailableColumns(table))]
    ELSE [raised |-> TRUE, error |-> "ValueError",
          message |-> <<"Unsupported export format: ", format_type>>]

ExportFormats == {"csv", "CSV", "Csv", "json", "JSON", "xlsx", ""}

RECURSIVE ReverseSeq(_)
ReverseSeq(s) ==
    IF s = <<>> THEN <<>> ELSE Append(ReverseSeq(Tail(s)), Head(s))

\* tables with some of the columns, in file order or reversed, whose cell in
\* record i of column c is the pair <<c, i>>
ExportTables ==
    {[columns |-> cols,
      rows |-> [i \in 1..n |-> [c \in Range(cols) |-> <<c, i>>]]] :
        cols \in UNION {{SelectSeq(ExportColumnOrder, LAMBDA c : c \in present),
                         ReverseSeq(SelectSeq(ExportColumnOrder,
                                              LAMBDA c : c \in present))} :
                            present \in SUBSET Range(ExportColumnOrder)},
        n \in 0..MaxExportRows}

export_anomaly_data ==
    /\ export_call # <<>>
    /\ export_out = <<>>
    /\ export_out' = export_anomaly_data_result(export_call.df,
                                                export_call.format_type)
    /\ UNCHANGED <<risk_threshold, high_risk_events, anomaly_summary,
                   export_call>>
    /\ UNCHANGED session_vars
    /\ UNCHANGED sched_vars
    /\ UNCHANGED <<ml_vars, geo_vars, enc_vars, proc_vars>>

\* a table and a format about to be given to export_anomaly_data
InitExport ==
    /\ MLIdle
    /\ GeoIdle
    /\ EncIdle
    /\ ProcIdle
    /\ risk_threshold = [nan |-> FALSE, num |-> 7, den |-> 10]
    /\ high_risk_events = <<>>
    /\ anomaly_summary = <<>>
    /\ export_call \in [df : ExportTables, format_type : ExportFormats]
    /\ export_out = <<>>
    /\ SessionIdle
    /\ SchedIdle

NextExport == export_anomaly_data

SpecExport == InitExport /\ [][NextExport]_vars

-----------------------------------------------------------------------------
\* The "Start Anomaly Detection" handler of the detection page, in a session
\* that also uploads, replaces and clears its data.  A session runs one
\* handler at a time.

\* the outcomes of the geolocation lookups of a run that matter here
RunCountries == {"Unknown", "US"}

\* the risk scores a run can give a record
RunScores == {Rat(3, 10), Rat(7, 10)}

WithColumns(table, new_columns, value) ==
    [columns |-> table.columns \cup new_columns,
     rows |-> [i \in DOMAIN table.rows |->
                 [c \in table.columns \cup new_columns |->
                    IF c \in new_columns THEN value[c][i] ELSE table.rows[i][c]]]]

\* if st.button("Start Anomaly Detection"): df is the copy of login_data the
\* page made, the detector is constructed
start_anomaly_detection ==
    /\ run_pc = "idle"
    /\ upload_pc = "idle"
    /\ login_data # NoTable
    /\ \E include_geolocation \in BOOLEAN :
        run_locals' = [include_geolocation |-> include_geolocation,
                       df |-> login_data]
    /\ run_pc' = "initialized"
    /\ UNCHANGED <<anomaly_results, session_anomaly_summary, geo_analysis>>
    /\ UNCHANGED <<risk_threshold, high_risk_events, anomaly_summary, export_vars,
                   sched_vars>>
    /\ UNCHANGED <<ml_vars, geo_vars, enc_vars, proc_vars>>

\* Step 2: enrich_with_geolocation and detect_impossible_travel, or df.copy().
\* The uploaded records of the session have one user and one address, so the
\* travel step finds the table in order and flags nothing.
run_geolocation ==
    /\ run_pc = "initialized"
    /\ IF run_locals.include_geolocation
       THEN \E country \in RunCountries :
               run_locals' =
                 [include_geolocation |-> TRUE,
                  df |-> run_locals.df,
                  df_enriched |->
                     WithColumns(run_locals.df, {"country", "impossible_travel"},
                         [country |-> [i \in DOMAIN run_locals.df.rows |-> country],
                          impossible_travel |->
                             [i \in DOMAIN run_locals.df.rows |-> FALSE]])]
       ELSE run_locals' = [include_geolocation |-> FALSE,
                           df |-> run_locals.df,
                           df_enriched |-> run_locals.df]
    /\ run_pc' = "enriched"
    /\ UNCHANGED <<anomaly_results, session_anomaly_summary, geo_analysis>>
    /\ UNCHANGED <<risk_threshold, high_risk_events, anomaly_summary, export_vars,
                   sched_vars>>
    /\ UNCHANGED <<ml_vars, geo_vars, enc_vars, proc_vars>>

\* the scored table detect_anomalies returns for the given scores
RunResults(table, scores) ==
    WithColumns(table, {"risk_score", "risk_level"},
        [risk_score |-> scores,
         risk_level |-> [i \in DOMAIN scores |-> classify_risk(scores[i])]])

\* a handler that stored the results as soon as they were computed
run_detect_anomalies_storing ==
    /\ run_pc = "enriched"
    /\ \/ /\ run_pc' = "raised"
          /\ UNCHANGED <<run_locals, anomaly_results>>
       \/ /\ \E scores \in [DOMAIN run_locals.df_enriched.rows -> RunScores] :
               /\ run_locals' =
                    [include_geolocation |-> run_locals.include_geolocation,
                     df |-> run_locals.df,
                     df_enriched |-> run_locals.df_enriched,
                     results |-> RunResults(run_locals.df_enriched, scores)]
               /\ anomaly_results' = RunResults(run_locals.df_enriched, scores)
          /\ run_pc' = "detected"
    /\ UNCHANGED <<session_anomaly_summary, geo_analysis>>
    /\ UNCHANGED <<risk_threshold, high_risk_events, anomaly_summary, export_vars,
                   sched_vars>>
    /\ UNCHANGED <<ml_vars, geo_vars, enc_vars, proc_vars>>

\* Step 3: results = detector.detect_anomalies(df_enriched).  It returns a
\* scored table, or raises (PCA and DBSCAN reject some table shapes).
run_detect_anomalies ==
    /\ run_pc = "enriched"
    /\ \/ /\ run_pc' = "raised"
          /\ UNCHANGED run_locals
       \/ /\ \E scores \in [DOMAIN run_locals.df_enriched.rows -> RunScores] :
               run_locals' =
                 [include_geolocation |-> run_locals.include_geolocation,
                  df |-> run_locals.df,
                  df_enriched |-> run_locals.df_enriched,
                  results |-> RunResults(run_locals.df_enriched, scores)]
          /\ run_pc' = "detected"
    /\ UNCHANGED <<anomaly_results, session_anomaly_summary, geo_analysis>>
    /\ UNCHANGED <<risk_threshold, high_risk_events, anomaly_summary, export_vars,
                   sched_vars>>
    /\ UNCHANGED <<ml_vars, geo_vars, enc_vars, proc_vars>>

\* analyze_geographical_patterns: the country entries of the analysis
analyze_geographical_patterns(table) ==
    [countries |-> ValueCounts(Values(table.rows, "country")),
     unique_countries |-> Cardinality(Range(Values(table.rows, "country")))]

\* Step 4: the summary of the results and the geographical analysis
run_summarise ==
    /\ run_pc = "detected"
    /\ run_locals' =
         [include_geolocation |-> run_locals.include_geolocation,
          df |-> run_locals.df,
          df_enriched |-> run_locals.df_enriched,
          results |-> run_locals.results,
          anomaly_summary |-> get_anomaly_summary_result(run_locals.results.rows),
          geo_analysis |->
             IF run_locals.include_geolocation
             THEN analyze_geographical_patterns(run_locals.results)
             ELSE [empty |-> TRUE]]
    /\ run_pc' = "summarised"
    /\ UNCHANGED <<anomaly_results, session_anomaly_summary, geo_analysis>>
    /\ UNCHANGED <<risk_threshold, high_risk_events, anomaly_summary, export_vars,
                   sched_vars>>
    /\ UNCHANGED <<ml_vars, geo_vars, enc_vars, proc_vars>>

\* Step 5: the three assignments to st.session_state
save_results ==
    /\ run_pc = "summarised"
    /\ anomaly_results' = run_locals.results
    /\ session_anomaly_summary' = run_locals.anomaly_summary
    /\ geo_analysis' = run_locals.geo_analysis
    /\ run_locals' = <<>>
    /\ run_pc' = "idle"
    /\ UNCHANGED <<risk_threshold, high_risk_events, anomaly_summary, export_vars,
                   sched_vars>>
    /\ UNCHANGED <<ml_vars, geo_vars, enc_vars, proc_vars>>

\* except Exception: st.error(...), st.stop()
report_detection_error ==
    /\ run_pc = "raised"
    /\ run_locals' = <<>>
    /\ run_pc' = "idle"
    /\ UNCHANGED <<anomaly_results, session_anomaly_summary, geo_analysis>>
    /\ UNCHANGED <<risk_threshold, high_risk_events, anomaly_summary, export_vars,
                   sched_vars>>
    /\ UNCHANGED <<ml_vars, geo_vars, enc_vars, proc_vars>>

\* a new session
InitSession ==
    /\ MLIdle
    /\ GeoIdle
    /\ EncIdle
    /\ ReportIdle
    /\ ProcIdle

NextSession ==
    \/ read_csv
    \/ validate_data
    \/ clean_data
    \/ extract_features
    \/ save_to_session
    \/ report_failure
    \/ clear_current_data
    \/ start_anomaly_detection
    \/ run_geolocation
    \/ run_detect_anomalies
    \/ run_summarise
    \/ save_results
    \/ report_detection_error

SpecSession == InitSession /\ [][NextSession]_vars

\* ---------------------------------------------------------------------
\* SecurityReportGenerator.generate_scheduled_report_summary
\* (utils/report_generator.py): the trailing-24-hour and trailing-7-day
\* summaries of a scored table. Timestamps are seconds.

\* timedelta(hours=24) and timedelta(days=7), in seconds
Hours24 == 86400
Days7 == 604800

\* df[df['timestamp'] >= (now - span)]: the rows at or after the window's
\* start, in the table's order (rows after `now` included)
TrailingWindow(table, now, span) ==
    SelectSeq(table, LAMBDA r : r.timestamp >= now - span)

\* len(w[w['risk_score'] >= bound]); a NaN score compares False
EventsAtLeast(w, bound) ==
    Cardinality({i \in DOMAIN w : RatGE(w[i].risk_score, bound)})

\* one window's counts
WindowSummary(w) ==
    [total_logins |-> Len(w),
     high_risk_events |-> EventsAtLeast(w, Rat(6, 10)),
     critical_events |-> EventsAtLeast(w, Rat(8, 10)),
     unique_users |-> Cardinality({w[i].user_id : i \in DOMAIN w})]

\* the comparison made with >= instead of >
TrendInclusive(a, b) == IF RatGE(a, b) THEN "increasing" ELSE "decreasing"

\* 'increasing' if a > b else 'decreasing'; a NaN mean compares False
Trend(a, b) == IF RatGT(a, b) THEN "increasing" ELSE "decreasing"

generate_scheduled_report_summary_result(table, now) ==
    LET last_24h == TrailingWindow(table, now, Hours24)
        last_week == TrailingWindow(table, now, Days7)
    IN  [report_timestamp |-> now,
         last_24_hours |-> WindowSummary(last_24h),
         last_week |-> WindowSummary(last_week),
         trends |->
            [risk_score_trend |->
                Trend(Mean(Values(last_24h, "risk_score")),
                      Mean(Values(last_week, "risk_score"))),
             activity_trend |->
                Trend(Rat(Len(last_24h), 1), Rat(Len(last_week), 7))]]

\* the reports page calls the reducer once per script run; df is only read
generate_scheduled_report_summary ==
    /\ sched_df # <<>>
    /\ scheduled_summary = <<>>
    /\ scheduled_summary' =
           generate_scheduled_report_summary_result(sched_df, sched_now)
    /\ UNCHANGED <<sched_df, sched_now>>
    /\ UNCHANGED <<risk_threshold, high_risk_events, anomaly_summary,
                   export_vars, session_vars>>
    /\ UNCHANGED <<ml_vars, geo_vars, enc_vars, proc_vars>>

MaxScheduledRows == 2

\* the clock readings of the calls
ReportClock == {1000000}

\* offsets of a login before the call: inside the last day, exactly a day,
\* a second more than a day, exactly a week, a second more than a week, and
\* an hour after the call
LoginAges == {3600, 86400, 86401, 604800, 604801, -3600}

\* risk scores below, at and between the two boundaries, and NaN
ScheduledScores == {Rat(1, 2), Rat(6, 10), Rat(8, 10), NaN}

ScheduledRows(now) ==
    {[timestamp |-> now - a, user_id |-> u, risk_score |-> s] :
        a \in LoginAges, u \in UserIds, s \in ScheduledScores}

\* a scored table is about to be summarised
InitScheduled ==
    /\ MLIdle
    /\ GeoIdle
    /\ EncIdle
    /\ ProcIdle
    /\ risk_threshold = [nan |-> FALSE, num |-> 7, den |-> 10]
    /\ high_risk_events = <<>>
    /\ anomaly_summary = <<>>
    /\ ExportIdle
    /\ SessionIdle
    /\ sched_now \in ReportClock
    /\ sched_df \in UNION {[1..n -> ScheduledRows(sched_now)] :
                             n \in 1..MaxScheduledRows}
    /\ scheduled_summary = <<>>

NextScheduled == generate_scheduled_report_summary

SpecScheduled == InitScheduled /\ [][NextScheduled]_vars

\* The whole program: a detector run, a direct scoring call, or a geolocation
\* session.
Init ==
    \/ InitDetect \/ InitFuse \/ InitGeo \/ InitRuns \/ InitEncode
    \/ InitAgent \/ InitUpload \/ InitClean \/ InitExtract
    \/ InitThreshold \/ InitSummary
    \/ InitExport \/ InitSession \/ InitScheduled

Next ==
    \/ prepare_features
    \/ detect_isolation_forest
    \/ detect_dbscan_outliers
    \/ statistical_anomaly_detection
    \/ calculate_risk_scores
    \/ lookup_ip
    \/ enrich_with_geolocation
    \/ detect_impossible_travel
    \/ start_detection_run
    \/ encode_categorical_features
    \/ parse_user_agent
    \/ read_csv
    \/ validate_data
    \/ clean_data
    \/ clean_data_again
    \/ extract_features
    \/ extract_features_again
    \/ save_to_session
    \/ report_failure
    \/ clear_current_data
    \/ set_risk_threshold
    \/ show_high_risk_events
    \/ get_anomaly_summary
    \/ export_anomaly_data
    \/ start_anomaly_detection
    \/ run_geolocation
    \/ run_detect_anomalies
    \/ run_summarise
    \/ save_results
    \/ report_detection_error
    \/ generate_scheduled_report_summary

Spec == Init /\ [][Next]_vars

-----------------------------------------------------------------------------
\* Properties.

InUnitInterval(x) == ~x.nan /\ 0 <= x.num /\ x.num <= x.den

\* C1: the risk_level of every scored record is decided by its risk_score
\* alone, against the fixed boundaries: Critical iff score >= 0.8, High iff
\* 0.6 <= score < 0.8, Medium iff 0.4 <= score < 0.6, Low otherwise; a score
\* equal to a boundary falls in the higher bucket.
C1_RiskLevelMatchesThresholds ==
    pc = "returned" =>
        \A i \in DOMAIN results :
            LET s     == results[i].risk_score
                level == results[i].risk_level
            IN  /\ level \in {"Critical", "High", "Medium", "Low"}
                /\ level = "Critical" <=> (~s.nan /\ 10 * s.num >= 8 * s.den)
                /\ level = "High" <=>
                      (~s.nan /\ 10 * s.num >= 6 * s.den /\ 10 * s.num < 8 * s.den)
                /\ level = "Medium" <=>
                      (~s.nan /\ 10 * s.num >= 4 * s.den /\ 10 * s.num < 6 * s.den)

\* a table with records exactly on the 0.8, 0.6 and 0.4 boundaries
C1_Witness ==
    /\ pc = "returned"
    /\ \E i \in DOMAIN results :
        /\ RatEq(results[i].risk_score, Rat(8, 10))
        /\ results[i].risk_level = "Critical"
    /\ \E i \in DOMAIN results :
        /\ \/ RatEq(results[i].risk_score, Rat(6, 10))
           \/ RatEq(results[i].risk_score, Rat(4, 10))
        /\ results[i].risk_level \in {"High", "Medium"}

\* C2: every record of a table detect_anomalies returns has a risk_score that
\* is a number in the closed interval [0,1].
C2_RiskScoreInUnitInterval ==
    pc = "returned" =>
        \A i \in DOMAIN results : InUnitInterval(results[i].risk_score)

\* C3: risk_score = 0.4*isolation_score + 0.3*is_dbscan_outlier +
\* 0.3*statistical_score for every record, is_dbscan_outlier is 1 exactly for
\* the DBSCAN label -1, and factors in [0,1] give a score in [0,1].
C3_WeightedFusion ==
    pc = "returned" =>
        \A i \in DOMAIN results :
            LET r    == results[i]
                iso  == r.isolation_score
                stat == r.statistical_score
                risk == r.risk_score
            IN  /\ r.is_dbscan_outlier = (IF dbscan_labels[i] = -1 THEN 1 ELSE 0)
                /\ iso = isolation_scores[i]
                /\ risk.nan <=> (iso.nan \/ stat.nan)
                /\ ~risk.nan =>
                      10 * risk.num * iso.den * stat.den
                        = risk.den * (4 * iso.num * stat.den
                                      + 3 * r.is_dbscan_outlier * iso.den * stat.den
                                      + 3 * stat.num * iso.den)
                /\ (InUnitInterval(iso) /\ InUnitInterval(stat)) =>
                      InUnitInterval(risk)

\* a table with a clustered record (label 0 or 1) and an outlier record whose
\* three factors are all 1
C3_Witness ==
    /\ pc = "returned"
    /\ \E i \in DOMAIN results :
        /\ dbscan_labels[i] = 1
        /\ results[i].is_dbscan_outlier = 0
        /\ InUnitInterval(results[i].risk_score)
    /\ \E i \in DOMAIN results :
        /\ dbscan_labels[i] = -1
        /\ RatEq(results[i].isolation_score, Rat(1, 1))
        /\ RatEq(results[i].statistical_score, Rat(1, 1))
        /\ RatEq(results[i].risk_score, Rat(1, 1))

\* C4: detect_anomalies raises on no degenerate input: for a table of fewer
\* rows than the DBSCAN minimum-sample parameter every detector step completes.
C4_DetectAnomaliesNeverRaises ==
    Len(df) < min_samples => pc # "raised"

\* C5: when all raw isolation scores are equal every normalized score is 0;
\* otherwise it is 1 - (s - min)/(max - min), which is 1 for the lowest raw
\* score, 0 for the highest, and always in [0,1].
C5_NormalizedIsolationScores ==
    pc \in {"isolation_done", "dbscan_done", "statistical_done", "returned",
            "raised"} =>
        LET lo == SeqMin(anomaly_scores)
            hi == SeqMax(anomaly_scores)
        IN  \A i \in DOMAIN anomaly_scores :
                IF lo = hi
                THEN RatEq(isolation_scores[i], Rat(0, 1))
                ELSE /\ RatEq(isolation_scores[i],
                              Rat(hi - anomaly_scores[i], hi - lo))
                     /\ InUnitInterval(isolation_scores[i])

\* C6: statistical_score is the arithmetic mean of the record's is_<rule>
\* indicators written by calculate_risk_scores, for any set of rules; it is 0
\* when there is no rule; it is always in [0,1].
C6_StatisticalScoreIsMean ==
    pc = "returned" =>
        \A i \in DOMAIN results :
            LET r     == results[i]
                rules == DOMAIN r.is_rule
                fired == {x \in rules : r.is_rule[x] = 1}
            IN  /\ rules = DOMAIN statistical_anomalies
                /\ \A x \in rules :
                      r.is_rule[x] = (IF statistical_anomalies[x][i] THEN 1 ELSE 0)
                /\ IF rules = {}
                   THEN RatEq(r.statistical_score, Rat(0, 1))
                   ELSE r.statistical_score.num * Cardinality(rules)
                          = Cardinality(fired) * r.statistical_score.den
                /\ InUnitInterval(r.statistical_score)

\* three rules of which exactly one fires for a record: the mean is 1/3
C6_Witness ==
    /\ pc = "returned"
    /\ \E i \in DOMAIN results :
        /\ Cardinality(DOMAIN results[i].is_rule) = 3
        /\ Cardinality({x \in DOMAIN results[i].is_rule :
                            results[i].is_rule[x] = 1}) = 1
        /\ RatEq(results[i].statistical_score, Rat(1, 3))

\* the later login of a consecutive same-user pair that is evaluated
\* (differing coordinates, elapsed time > 0), by position in the output table
EvaluatedPair(t, k) ==
    /\ k > 1
    /\ t[k - 1].user_id = t[k].user_id
    /\ \/ t[k - 1].latitude # t[k].latitude
       \/ t[k - 1].longitude # t[k].longitude
    /\ t[k].timestamp > t[k - 1].timestamp

\* C7: for every evaluated pair the later login gets travel_speed_kmh =
\* distance_km / time_diff_hours and impossible_travel = true exactly when
\* that speed is strictly above 1000 km/h; for the distance of a flagged pair
\* every shorter positive elapsed time is flagged as well.
C7_SpeedDecidesFlag ==
    geo_pc = "travelled" =>
        \A k \in DOMAIN travel_df :
            EvaluatedPair(travel_df, k) =>
                LET r     == travel_df[k]
                    secs  == r.timestamp - travel_df[k - 1].timestamp
                    speed == r.travel_speed_kmh
                    hours == r.time_diff_hours
                IN  /\ r.distance_km > 0
                    /\ ~hours.nan /\ hours.num * 3600 = secs * hours.den
                    /\ ~speed.nan
                    /\ speed.num * hours.num = r.distance_km * hours.den * speed.den
                    /\ r.impossible_travel <=> (speed.num > 1000 * speed.den)
                    /\ r.impossible_travel =>
                          \A shorter \in {secs, secs - 1, secs \div 2, 1} :
                              ExceedsMaxSpeed(
                                  RequiredSpeed(r.distance_km,
                                                TimeDiffHours(0, shorter)))

\* one user with a pair at exactly 1000 km/h (not flagged) and a pair above
\* it (flagged)
C7_Witness ==
    /\ geo_pc = "travelled"
    /\ \E k \in DOMAIN travel_df :
        /\ EvaluatedPair(travel_df, k)
        /\ RatEq(travel_df[k].travel_speed_kmh, Rat(1000, 1))
        /\ ~travel_df[k].impossible_travel
    /\ \E k \in DOMAIN travel_df :
        /\ EvaluatedPair(travel_df, k)
        /\ RatGT(travel_df[k].travel_speed_kmh, Rat(1000, 1))
        /\ travel_df[k].impossible_travel

ZeroTravelFields(r) ==
    /\ r.distance_km = 0
    /\ RatEq(r.time_diff_hours, Rat(0, 1))
    /\ RatEq(r.travel_speed_kmh, Rat(0, 1))
    /\ r.impossible_travel = FALSE

\* C8: only temporally consecutive logins of one user are compared: the
\* output is ordered by user and ascending timestamp, the earliest login of
\* every user keeps the zero defaults, and travel fields that were computed
\* come from the same user's login that directly precedes in time.
C8_ConsecutiveSameUserOnly ==
    geo_pc = "travelled" =>
        /\ Len(travel_df) = Len(enriched_df)
        /\ \A k \in 1..(Len(travel_df) - 1) :
              \/ travel_df[k].user_id < travel_df[k + 1].user_id
              \/ /\ travel_df[k].user_id = travel_df[k + 1].user_id
                 /\ travel_df[k].timestamp <= travel_df[k + 1].timestamp
        /\ \A k \in DOMAIN travel_df :
              LET r == travel_df[k]
                  earlier == {j \in DOMAIN travel_df :
                                 /\ j # k
                                 /\ travel_df[j].user_id = r.user_id
                                 /\ travel_df[j].timestamp < r.timestamp}
              IN  /\ (\A j \in 1..(k - 1) : travel_df[j].user_id # r.user_id)
                        => ZeroTravelFields(r)
                  /\ ~ZeroTravelFields(r) =>
                        \E p \in earlier :
                            /\ \A q \in earlier :
                                  travel_df[q].timestamp <= travel_df[p].timestamp
                            /\ r.distance_km =
                                  calculate_distance(
                                      travel_df[p].latitude, travel_df[p].longitude,
                                      r.latitude, r.longitude)
                            /\ r.time_diff_hours.num * 3600 =
                                  (r.timestamp - travel_df[p].timestamp)
                                      * r.time_diff_hours.den

\* a second user whose first login follows, at another place and a later
\* time, the last login of the first user, next to a pair that was computed
C8_Witness ==
    /\ geo_pc = "travelled"
    /\ \E k \in 2..Len(travel_df) :
        /\ travel_df[k - 1].user_id # travel_df[k].user_id
        /\ travel_df[k - 1].longitude # travel_df[k].longitude
        /\ travel_df[k - 1].timestamp < travel_df[k].timestamp
        /\ ZeroTravelFields(travel_df[k])
    /\ \E k \in DOMAIN travel_df : ~ZeroTravelFields(travel_df[k])

\* the four private ranges, read off the dotted quad
InPrivateRange(ip) ==
    /\ Len(ip) = 4
    /\ \/ ip[1] = 10
       \/ ip[1] = 172 /\ ip[2] \in 16..31
       \/ ip[1] = 192 /\ ip[2] = 168
       \/ ip[1] = 127

UnknownSentinel(location) ==
    /\ location.country = "Unknown"
    /\ location.latitude = 0
    /\ location.longitude = 0
    /\ location.is_proxy = FALSE
    /\ location.is_vpn = FALSE

\* C9: get_ip_location on an address in 10/8, 172.16/12, 192.168/16 or 127/8
\* returns the Unknown sentinel and sends no HTTP request, whatever the cache
\* holds.
C9_PrivateAddressNoRequest ==
    /\ \A n \in DOMAIN lookups :
          InPrivateRange(lookups[n].ip) =>
              /\ UnknownSentinel(lookups[n].returned)
              /\ lookups[n].returned.ip = lookups[n].ip
              /\ ~lookups[n].requested
    /\ \A ip \in IpAddresses : InPrivateRange(ip) => http_requests[ip] = 0

\* a private address looked up while the cache holds a resolved public one
C9_Witness ==
    /\ Len(lookups) = 1
    /\ lookups[1].ip = <<172, 31, 255, 254>>
    /\ UnknownSentinel(lookups[1].returned)
    /\ <<8, 8, 8, 8>> \in DOMAIN location_cache
    /\ ~UnknownSentinel(location_cache[<<8, 8, 8, 8>>])
    /\ <<127, 0, 0, 1>> \in DOMAIN location_cache

\* C10: get_ip_location never lets an error out: a request that raises, a
\* non-200 status, a status other than 'success' and an unparsable body all
\* return the Unknown sentinel and store it in the cache under that address;
\* enrich_with_geolocation goes on after a failed lookup and gives every row
\* of the batch the location of its address.
C10_FailedLookupAbsorbed ==
    /\ geo_pc # "raised"
    /\ \A n \in DOMAIN lookups :
          LET e == lookups[n]
          IN  /\ ~e.raised
              /\ (e.requested /\ e.response # "success") =>
                    /\ UnknownSentinel(e.returned)
                    /\ e.ip \in DOMAIN location_cache
                    /\ location_cache[e.ip] = e.returned
    /\ geo_pc \in {"enriched", "travelled"} =>
          /\ Len(enriched_df) = Len(login_df)
          /\ \A i \in DOMAIN login_df :
                /\ \E n \in DOMAIN lookups : lookups[n].ip = login_df[i].ip_address
                /\ enriched_df[i].user_id = login_df[i].user_id
                /\ enriched_df[i].timestamp = login_df[i].timestamp
                /\ enriched_df[i].ip_address = login_df[i].ip_address
                /\ login_df[i].ip_address \in DOMAIN location_cache
                /\ enriched_df[i].ip = login_df[i].ip_address
                /\ enriched_df[i].latitude
                      = location_cache[login_df[i].ip_address].latitude
                /\ enriched_df[i].longitude
                      = location_cache[login_df[i].ip_address].longitude
                /\ enriched_df[i].country
                      = location_cache[login_df[i].ip_address].country

\* a batch whose first lookup fails and whose next lookup succeeds
C10_Witness ==
    /\ geo_pc = "enriched"
    /\ Len(lookups) >= 2
    /\ lookups[1].requested /\ lookups[1].response = "raises"
    /\ lookups[2].requested /\ lookups[2].response = "success"
    /\ \E i \in DOMAIN enriched_df :
        /\ enriched_df[i].ip_address = lookups[2].ip
        /\ enriched_df[i].country # "Unknown"

\* C11: over any sequence of detection runs in one process, each distinct IP
\* address causes at most one HTTP request to the geolocation service.
C11_OneRequestPerAddress ==
    \A ip \in IpAddresses : http_requests[ip] <= 1

\* C12: every detect_anomalies call refits all detector state on the given
\* table: the encoded categorical features a detector instance hands to its
\* scaler and models are, after scaling, those a new detector would produce
\* for the same table, whatever tables the instance saw before.
C12_EncodersRefitEveryCall ==
    calls >= 1 =>
        \A f \in CategoricalFeatures :
            SameScaled(feature_matrix[f],
                       EncodeFeature(<<>>, f, CategoricalColumn(cat_df, f)).codes)

\* the categories of one attribute in the order of the specification, each
\* with the keywords that select it
BrowserOrder ==
    <<[category |-> "Chrome", keywords |-> {"chrome"}],
      [category |-> "Firefox", keywords |-> {"firefox"}],
      [category |-> "Safari", keywords |-> {"safari"}],
      [category |-> "Edge", keywords |-> {"edge"}],
      [category |-> "Opera", keywords |-> {"opera"}]>>

OsOrder ==
    <<[category |-> "Windows", keywords |-> {"windows"}],
      [category |-> "macOS", keywords |-> {"mac", "darwin"}],
      [category |-> "Linux", keywords |-> {"linux"}],
      [category |-> "Android", keywords |-> {"android"}],
      [category |-> "iOS", keywords |-> {"iphone", "ipad"}]>>

DeviceOrder ==
    <<[category |-> "Mobile", keywords |-> {"mobile", "android", "iphone"}],
      [category |-> "Tablet", keywords |-> {"tablet", "ipad"}]>>

\* the keyword occurs in the string, whatever the case of its letters
OccursIgnoringCase(keyword, ua) ==
    \E token \in ua.tokens :
        \/ Lower(token) = keyword
        \/ keyword = "mac" /\ token = "Macintosh"

Matches(entry, ua) == \E k \in entry.keywords : OccursIgnoringCase(k, ua)

\* the first category of the order with a keyword in the string, else other
FirstMatch(order, other, ua) ==
    IF \E i \in DOMAIN order : Matches(order[i], ua)
    THEN order[CHOOSE i \in DOMAIN order :
                 /\ Matches(order[i], ua)
                 /\ \A j \in 1..(i - 1) : ~Matches(order[j], ua)].category
    ELSE other

\* C17: browser, os and device_type are each the first category, in the
\* stated order, whose keyword occurs case-insensitively in the user agent
\* (Other / Other / Desktop when none does); a missing user agent gives
\* 'Unknown' for all three.
C17_FirstMatchWins ==
    parsed # <<>> =>
        IF user_agent.isna
        THEN parsed = [browser |-> "Unknown", os |-> "Unknown",
                       device_type |-> "Unknown"]
        ELSE /\ parsed.browser = FirstMatch(BrowserOrder, "Other", user_agent)
             /\ parsed.os = FirstMatch(OsOrder, "Other", user_agent)
             /\ parsed.device_type = FirstMatch(DeviceOrder, "Desktop", user_agent)

\* an Android phone: 'linux' comes before 'android' in the OS order
C17_Witness ==
    /\ parsed # <<>>
    /\ user_agent.tokens = {"Linux", "Android", "Chrome"}
    /\ parsed = [browser |-> "Chrome", os |-> "Linux", device_type |-> "Mobile"]

\* C13: no core operation modifies the table passed to it.  On the upload
\* page: validate_data and clean_data leave the table read from the file as
\* it was, and extract_features leaves the cleaned table as it was.
C13_InputTableUnchanged ==
    [][/\ upload_pc \in {"read", "validated"} => uploaded_df' = uploaded_df
       /\ upload_pc = "cleaned" => df_clean' = df_clean]_vars

\* a table with the four required columns, at least one row, parsed
\* timestamps, well-formed addresses and no missing value in those columns
PassedValidation(t) ==
    /\ {"timestamp", "user_id", "ip_address", "user_agent"} \subseteq t.columns
    /\ t.rows # <<>>
    /\ \A i \in DOMAIN t.rows :
        LET r == t.rows[i]
        IN  /\ ~r.timestamp.isna /\ r.timestamp.dtype = "datetime"
            /\ ~r.user_id.isna
            /\ ~r.user_agent.isna
            /\ ~r.ip_address.isna
            /\ Len(r.ip_address.value) = 4
            /\ \A k \in 1..4 : r.ip_address.value[k] >= 0 /\ r.ip_address.value[k] <= 255

\* C14: validation errors block downstream processing: clean_data and
\* extract_features have run only on an upload that validate_data reported
\* valid with no error, and the session's login_data is either empty or a
\* dataset that passes validation.
C14_InvalidUploadBlocked ==
    /\ upload_pc \in {"cleaned", "featured"} =>
        /\ validation.is_valid
        /\ validation.errors = <<>>
        /\ PassedValidation(uploaded_df)
    /\ (upload_pc = "validated" /\ ~validation.is_valid) =>
        /\ df_clean = NoTable
        /\ df_features = NoTable
    /\ login_data # NoTable => PassedValidation(login_data)

\* an invalid upload after a valid one: the stored dataset stays
C14_Witness ==
    /\ upload_pc = "validated"
    /\ ~validation.is_valid
    /\ validation.errors # <<>>
    /\ login_data # NoTable

\* C15: when required columns are absent, validate_data returns invalid with
\* one message that names every missing column and does none of the later
\* checks (no other message, the timestamp column is not converted); it
\* returns valid exactly when its error list is empty; an empty dataset is
\* invalid.
C15_ValidationReport ==
    validation # <<>> =>
        LET absent == {"timestamp", "user_id", "ip_address", "user_agent"}
                          \ uploaded_df.columns
        IN  /\ absent # {} =>
                /\ ~validation.is_valid
                /\ Len(validation.errors) = 1
                /\ validation.errors[1].kind = "missing_columns"
                /\ Range(validation.errors[1].columns) = absent
                /\ "timestamp" \in uploaded_df.columns =>
                    \A i \in DOMAIN uploaded_df.rows :
                        uploaded_df.rows[i].timestamp.dtype = "str"
            /\ validation.is_valid <=> validation.errors = <<>>
            /\ uploaded_df.rows = <<>> => ~validation.is_valid

\* a file with a timestamp column and a row, lacking two other columns
C15_Witness ==
    /\ validation # <<>>
    /\ uploaded_df.columns = {"timestamp", "user_id"}
    /\ uploaded_df.rows # <<>>
    /\ Len(validation.errors) = 1
    /\ validation.errors[1].columns = <<"ip_address", "user_agent">>

\* the table clean_data returned holds every distinct row of its input
\* exactly once, in ascending timestamp order, and the reported count is the
\* number of rows removed
CleanOutputCorrect ==
    upload_pc \in {"clean_done", "clean_twice"} =>
        LET input == ConvertTimestamps(uploaded_df).rows
            output == df_clean.rows
        IN  /\ Range(output) = Range(input)
            /\ \A i, j \in DOMAIN output : output[i] = output[j] => i = j
            /\ \A i, j \in DOMAIN output : i < j =>
                   output[i].timestamp.value <= output[j].timestamp.value
            /\ DOMAIN output = 1..Cardinality(Range(input))
            /\ upload_pc = "clean_done" => removed = Len(input) - Len(output)

\* C16: clean_data returns every distinct input row exactly once, in
\* ascending timestamp order under a fresh index, and reports the number of
\* removed rows; applying clean_data to its own output changes nothing.
C16_CleanDataIdempotent ==
    /\ CleanOutputCorrect
    /\ upload_pc = "clean_twice" => (df_again = df_clean /\ removed = 0)

\* C18: extract_features run on the output of extract_features completes and
\* gives every record the browser, os and device_type of the first run.
C18_ExtractFeaturesIdempotent ==
    /\ upload_pc # "raised"
    /\ upload_pc = "extract_twice" =>
        /\ Len(df_again.rows) = Len(df_features.rows)
        /\ \A i \in DOMAIN df_features.rows :
            \A c \in {"browser", "os", "device_type"} :
                /\ c \in DOMAIN df_features.rows[i]
                /\ c \in DOMAIN df_again.rows[i]
                /\ df_again.rows[i][c] = df_features.rows[i][c]

\* a second run on two records of one user with different user agents: the
\* per-user columns of the first run are renamed, the parsed ones stay
C18_Witness ==
    /\ upload_pc = "extract_twice"
    /\ Len(df_again.rows) = 2
    /\ df_again.rows[1].browser = "Chrome"
    /\ df_again.rows[2].browser = "Safari"
    /\ df_again.rows[2].device_type = "Mobile"
    /\ "login_count_x" \in df_again.columns
    /\ df_again.rows[1].unique_browsers_y = 2


-----------------------------------------------------------------------------
\* The risk levels of a scored table follow the boundaries 0.4, 0.6 and 0.8.
LevelsFollowFixedBoundaries ==
    \A i \in DOMAIN results :
        LET score == results[i].risk_score
            level == results[i].risk_level
        IN  /\ level = "Critical" <=> RatGE(score, Rat(4, 5))
            /\ level \in {"Critical", "High"} <=> RatGE(score, Rat(3, 5))
            /\ level \in {"Critical", "High", "Medium"} <=> RatGE(score, Rat(2, 5))
            /\ level \in {"Critical", "High", "Medium", "Low"}

\* C19: the alert threshold only filters what is displayed: a step that
\* changes risk_threshold, before or after the scoring, leaves every record's
\* risk_score and risk_level as they were, and under every threshold value the
\* levels of the scored records follow the boundaries 0.4 / 0.6 / 0.8.
C19_ThresholdOnlyFilters ==
    /\ []LevelsFollowFixedBoundaries
    /\ [][risk_threshold' # risk_threshold => results' = results]_vars

\* The threshold was lowered to 0.5 after the scoring and the displayed events
\* include a record of score 0.5 that is still classified Medium.
C19_Witness ==
    /\ pc = "returned"
    /\ RatEq(risk_threshold, Rat(1, 2))
    /\ high_risk_events # <<>>
    /\ \E i \in DOMAIN high_risk_events :
        /\ RatEq(high_risk_events[i].risk_score, Rat(1, 2))
        /\ high_risk_events[i].risk_level = "Medium"

RECURSIVE SumOver(_, _)
SumOver(f, S) ==
    IF S = {} THEN 0
    ELSE LET x == CHOOSE y \in S : TRUE
         IN  f[x] + SumOver(f, S \ {x})

RECURSIVE CountAtLeast(_, _)
CountAtLeast(table, bound) ==
    IF table = <<>> THEN 0
    ELSE (IF ~table[1].risk_score.nan
             /\ table[1].risk_score.num * bound.den
                  >= bound.num * table[1].risk_score.den
          THEN 1 ELSE 0) + CountAtLeast(Tail(table), bound)

SummaryCorrect ==
    anomaly_summary # <<>> =>
        /\ anomaly_summary.total_records = Len(results)
        /\ anomaly_summary.anomalies_detected = CountAtLeast(results, Rat(1, 2))
        /\ SumOver(anomaly_summary.risk_level_counts,
                   DOMAIN anomaly_summary.risk_level_counts)
             = anomaly_summary.total_records
        /\ \E users \in SUBSET UserIds :
            /\ anomaly_summary.high_risk_users = Cardinality(users)
            /\ \A u \in UserIds :
                u \in users <=>
                    \E i \in DOMAIN results :
                        /\ results[i].user_id = u
                        /\ RatGE(results[i].risk_score, Rat(7, 10))
        /\ anomaly_summary.anomalies_detected <= anomaly_summary.total_records
        /\ \A i \in DOMAIN results :
            results[i].risk_level \in {"High", "Critical"} =>
                RatGE(results[i].risk_score, Rat(1, 2))
        /\ Cardinality({i \in DOMAIN results :
                          results[i].risk_level \in {"High", "Critical"}})
             <= anomaly_summary.anomalies_detected

\* C20: get_anomaly_summary leaves the scored table as it was and returns
\* total_records = the number of records, anomalies_detected = the number of
\* records with risk_score >= 0.5 whatever the alert threshold is,
\* risk_level_counts summing to total_records and high_risk_users = the number
\* of distinct users with a record of risk_score >= 0.7; so anomalies_detected
\* is at most total_records and counts every High or Critical record.
C20_SummaryOfScoredTable ==
    /\ []SummaryCorrect
    /\ [][anomaly_summary' # anomaly_summary => results' = results]_vars

\* A summary was taken of a table holding a record of score exactly 0.5 and a
\* record whose score is NaN, under an alert threshold moved away from 0.7.
C20_Witness ==
    /\ anomaly_summary # <<>>
    /\ risk_threshold = Rat(9, 10)
    /\ \E i \in DOMAIN results : results[i].risk_score = Rat(1, 2)
    /\ \E i \in DOMAIN results : results[i].risk_score.nan
    /\ anomaly_summary.anomalies_detected = 1


-----------------------------------------------------------------------------
\* C21: a format other than 'csv' in any letter case makes export_anomaly_data
\* raise an error whose message carries the format as given, with no data
\* returned; with 'csv' in any letter case it returns data whose columns all
\* exist in the table given.
C21_ExportFormat ==
    export_out # <<>> =>
        IF export_call.format_type \in {"csv", "CSV", "Csv"}
        THEN /\ ~export_out.raised
             /\ \A k \in DOMAIN export_out.data.header :
                    \E j \in DOMAIN export_call.df.columns :
                        export_call.df.columns[j] = export_out.data.header[k]
             /\ \A i \in DOMAIN export_out.data.records :
                    Len(export_out.data.records[i]) = Len(export_out.data.header)
        ELSE /\ export_out.raised
             /\ "data" \notin DOMAIN export_out
             /\ \E k \in DOMAIN export_out.message :
                    export_out.message[k] = export_call.format_type

\* The export was asked for 'JSON' and was rejected with a message naming it.
C21_Witness ==
    /\ export_out # <<>>
    /\ export_call.format_type = "JSON"
    /\ export_call.df.rows # <<>>
    /\ export_out.raised
    /\ export_out.message = <<"Unsupported export format: ", "JSON">>


-----------------------------------------------------------------------------
\* row k of table t and the row before it belong to the same user
SameUserPair(t, k) == k >= 2 /\ t[k - 1].user_id = t[k].user_id

SkippedPair(t, k) ==
    /\ SameUserPair(t, k)
    /\ \/ t[k].timestamp - t[k - 1].timestamp <= 0
       \/ /\ t[k - 1].latitude = t[k].latitude
          /\ t[k - 1].longitude = t[k].longitude

FiniteNumber(x) == ~x.nan /\ x.den > 0

\* C22: in the table detect_impossible_travel returns, the later login of a
\* consecutive same-user pair with elapsed time <= 0 or identical coordinates
\* has distance_km = 0, time_diff_hours = 0, travel_speed_kmh = 0 and
\* impossible_travel = false; no row carries the result of a division by
\* zero; and every other same-user pair, also one that follows a skipped
\* pair, has its distance and positive elapsed time filled in.
C22_SkippedPairKeepsDefaults ==
    geo_pc = "travelled" =>
        \A k \in DOMAIN travel_df :
            /\ FiniteNumber(travel_df[k].travel_speed_kmh)
            /\ FiniteNumber(travel_df[k].time_diff_hours)
            /\ SkippedPair(travel_df, k) => ZeroTravelFields(travel_df[k])
            /\ (SameUserPair(travel_df, k) /\ ~SkippedPair(travel_df, k)) =>
                  /\ travel_df[k].distance_km =
                        calculate_distance(
                            travel_df[k - 1].latitude, travel_df[k - 1].longitude,
                            travel_df[k].latitude, travel_df[k].longitude)
                  /\ RatGT(travel_df[k].time_diff_hours, Rat(0, 1))
                  /\ RatGT(travel_df[k].travel_speed_kmh, Rat(0, 1))

\* Three logins of one user: the second at the time of the first from another
\* place (skipped), the third later from yet another place (evaluated).
C22_Witness ==
    /\ geo_pc = "travelled"
    /\ Len(travel_df) = 3
    /\ SameUserPair(travel_df, 2) /\ SameUserPair(travel_df, 3)
    /\ travel_df[2].timestamp = travel_df[1].timestamp
    /\ travel_df[2].longitude # travel_df[1].longitude
    /\ ZeroTravelFields(travel_df[2])
    /\ ~SkippedPair(travel_df, 3)
    /\ travel_df[3].distance_km > 0

\* C23: detect_impossible_travel never sets impossible_travel = true on a
\* login when that login or the same user's previous login carries the
\* Unknown sentinel location (latitude = longitude = 0).
C23_SentinelNeverFlagged ==
    geo_pc = "travelled" =>
        \A k \in DOMAIN travel_df :
            travel_df[k].impossible_travel =>
                /\ ~UnknownSentinel(travel_df[k])
                /\ SameUserPair(travel_df, k) => ~UnknownSentinel(travel_df[k - 1])


\* C24: within one analyzer every address get_ip_location has returned for is
\* in the cache with the record returned; no step removes or replaces a cache
\* entry; and a step that makes calls returns, for an address cached before
\* it, the cached record and sends no HTTP request, so a failed lookup is not retried and a cached sentinel is
\* not overwritten by a later answer.
C24_CacheEntriesArePermanent ==
    [][/\ \A ip \in DOMAIN location_cache :
            /\ ip \in DOMAIN location_cache'
            /\ location_cache'[ip] = location_cache[ip]
            /\ http_requests'[ip] = http_requests[ip]
       /\ \A n \in DOMAIN lookups' :
            /\ lookups'[n].ip \in DOMAIN location_cache'
            /\ lookups'[n].returned = location_cache'[lookups'[n].ip]
            /\ (lookups' # lookups /\ lookups'[n].ip \in DOMAIN location_cache) =>
                  /\ ~lookups'[n].requested
                  /\ lookups'[n].returned = location_cache[lookups'[n].ip]
      ]_vars

\* A public address whose only request failed is asked for again: the
\* sentinel comes from the cache, and the request count is still one.
C24_Witness ==
    /\ geo_pc = "lookup"
    /\ Len(lookups) = 1
    /\ lookups[1].ip = <<8, 8, 8, 8>>
    /\ ~lookups[1].requested
    /\ UnknownSentinel(lookups[1].returned)
    /\ http_requests[<<8, 8, 8, 8>>] = 1
    /\ <<127, 0, 0, 1>> \in DOMAIN location_cache


-----------------------------------------------------------------------------
\* the three values a detection run stores in the session
StoredRunValues == <<anomaly_results, session_anomaly_summary, geo_analysis>>

\* C25: while the detection handler runs, anomaly_results, anomaly_summary and
\* geo_analysis of the session change only in its last step, which assigns
\* all three from the values the finished run computed; a run that raised
\* ends with the three values as they were.
C25_RunStoresAllOrNothing ==
    [][run_pc # "idle" =>
          \/ StoredRunValues' = StoredRunValues
          \/ /\ run_pc = "summarised"
             /\ run_pc' = "idle"
             /\ anomaly_results' = run_locals.results
             /\ session_anomaly_summary' = run_locals.anomaly_summary
             /\ geo_analysis' = run_locals.geo_analysis
             /\ session_anomaly_summary'
                   = get_anomaly_summary_result(anomaly_results'.rows)
      ]_vars

\* A run on a second dataset has raised in detect_anomalies while the session
\* holds the results of a run on the dataset before.
C25_Witness ==
    /\ run_pc = "raised"
    /\ anomaly_results # NoTable
    /\ session_anomaly_summary # <<>>
    /\ geo_analysis # <<>>
    /\ Len(anomaly_results.rows) # Len(run_locals.df.rows)

\* the records of results, cut to the columns of data, are the records of data
ComputedFrom(results_table, data) ==
    /\ data # NoTable
    /\ data.columns \subseteq results_table.columns
    /\ Len(results_table.rows) = Len(data.rows)
    /\ \A r \in Range(data.rows) :
          Cardinality({i \in DOMAIN data.rows : data.rows[i] = r})
            = Cardinality({i \in DOMAIN results_table.rows :
                             Project(results_table.rows[i], data.columns) = r})

OriginalColumns(r) ==
    [user_id |-> r.user_id, timestamp |-> r.timestamp, ip_address |-> r.ip_address]

\* C27: the table detect_impossible_travel returns for the table
\* enrich_with_geolocation returned holds every input record exactly as often
\* as the input does, with user_id, timestamp and ip_address as given, ordered
\* by user_id and then timestamp, each with the location looked up for its
\* own ip_address.
C27_OneOutputRecordPerInput ==
    geo_pc = "travelled" =>
        /\ Len(travel_df) = Len(login_df)
        /\ \A v \in LoginRowValues :
              Cardinality({i \in DOMAIN login_df : login_df[i] = v})
                = Cardinality({k \in DOMAIN travel_df :
                                 OriginalColumns(travel_df[k]) = v})
        /\ \A k \in 1..(Len(travel_df) - 1) :
              \/ travel_df[k].user_id < travel_df[k + 1].user_id
              \/ /\ travel_df[k].user_id = travel_df[k + 1].user_id
                 /\ travel_df[k].timestamp <= travel_df[k + 1].timestamp
        /\ \A k \in DOMAIN travel_df :
              LET r == travel_df[k]
                  own == location_cache[r.ip_address]
              IN  /\ r.ip = r.ip_address
                  /\ r.country = own.country
                  /\ r.latitude = own.latitude
                  /\ r.longitude = own.longitude
                  /\ r.isp = own.isp
                  /\ r.is_proxy = own.is_proxy
                  /\ r.is_vpn = own.is_vpn

\* Three logins given in an order the travel step changes, two of them from
\* one address, the third from an address with another location.
C27_Witness ==
    /\ geo_pc = "travelled"
    /\ Len(login_df) = 3
    /\ login_df[1].user_id = 2 /\ login_df[2].user_id = 1
    /\ login_df[1].ip_address = login_df[3].ip_address
    /\ login_df[1].ip_address # login_df[2].ip_address
    /\ travel_df[1].user_id = 1
    /\ \E k \in DOMAIN travel_df : travel_df[k].country # "Unknown"
    /\ \E k \in DOMAIN travel_df : travel_df[k].country = "Unknown"


\* value is strictly above the q-th percentile of the column
AbovePercentile(value, column, q) ==
    LET p == Quantile(column, q)
    IN  ~p.nan /\ value * p.den > p.num

AllSame(column) == \A i, j \in DOMAIN column : column[i] = column[j]

\* C28: each indicator array statistical_anomaly_detection returns follows its
\* own rule on the feature table: unusual_hours iff hour < 6 or hour > 22,
\* weekend_login iff is_weekend = 1, multiple_browsers iff unique_browsers > 3,
\* multiple_os iff unique_os > 2, high_frequency iff login_frequency is
\* strictly above the table's 95th percentile, multiple_ips iff unique_ips is
\* strictly above the table's 90th percentile; a column whose values are all
\* the same flags no record.
C28_StatisticalRules ==
    pc \in {"statistical_done", "returned"} =>
        LET a == statistical_anomalies
            freq == [i \in DOMAIN df |-> df[i].login_frequency]
            ips == [i \in DOMAIN df |-> df[i].unique_ips]
        IN  /\ {"unusual_hours", "weekend_login"} \subseteq DOMAIN a
            /\ \A rule \in DOMAIN a : DOMAIN a[rule] = DOMAIN df
            /\ \A i \in DOMAIN df :
                /\ a.unusual_hours[i] <=> (df[i].hour < 6 \/ df[i].hour > 22)
                /\ a.weekend_login[i] <=> (df[i].is_weekend = 1)
                /\ "multiple_browsers" \in DOMAIN a =>
                      (a.multiple_browsers[i] <=> df[i].unique_browsers > 3)
                /\ "multiple_os" \in DOMAIN a =>
                      (a.multiple_os[i] <=> df[i].unique_os > 2)
                /\ "high_frequency" \in DOMAIN a =>
                      /\ a.high_frequency[i]
                            <=> AbovePercentile(df[i].login_frequency, freq, 95)
                      /\ AllSame(freq) => ~a.high_frequency[i]
                      /\ a.high_frequency[i] =>
                            \E j \in DOMAIN df :
                                df[j].login_frequency < df[i].login_frequency
                /\ "multiple_ips" \in DOMAIN a =>
                      /\ a.multiple_ips[i]
                            <=> AbovePercentile(df[i].unique_ips, ips, 90)
                      /\ AllSame(ips) => ~a.multiple_ips[i]
                      /\ a.multiple_ips[i] =>
                            \E j \in DOMAIN df :
                                df[j].unique_ips < df[i].unique_ips

\* Two equal records at 3 o'clock on a weekend with 4 browsers and 3 systems:
\* the four value rules flag both, the two percentile rules flag none.
C28_Witness ==
    /\ pc = "statistical_done"
    /\ Len(df) = 2
    /\ df[1] = df[2]
    /\ DOMAIN statistical_anomalies =
          {"unusual_hours", "weekend_login", "high_frequency",
           "multiple_browsers", "multiple_os", "multiple_ips"}
    /\ \A i \in 1..2 :
          /\ statistical_anomalies.unusual_hours[i]
          /\ statistical_anomalies.weekend_login[i]
          /\ statistical_anomalies.multiple_browsers[i]
          /\ statistical_anomalies.multiple_os[i]
          /\ ~statistical_anomalies.high_frequency[i]
          /\ ~statistical_anomalies.multiple_ips[i]


\* the records of the table that belong to the user of record i
SameUserRecords(rows, i) == {j \in DOMAIN rows : rows[j].user_id = rows[i].user_id}

\* C29: in the table extract_features returns, every record's days_active is
\* the number of whole days between its user's first and last login plus one
\* and is at least 1, login_frequency = login_count / days_active, hence
\* 0 < login_frequency <= login_count, and the records of one user carry the
\* same per-user aggregates.
C29_LoginFrequency ==
    (upload_pc \in {"featured", "extract_done", "extract_twice"}) =>
        \A i \in DOMAIN df_features.rows :
            LET rows == df_features.rows
                r == rows[i]
                mine == SameUserRecords(rows, i)
                first == CHOOSE t \in {rows[j].timestamp.value : j \in mine} :
                            \A j \in mine : t <= rows[j].timestamp.value
                last == CHOOSE t \in {rows[j].timestamp.value : j \in mine} :
                            \A j \in mine : t >= rows[j].timestamp.value
                f == r.login_frequency
            IN  /\ r.login_count = Cardinality(mine)
                /\ r.days_active >= 1
                /\ (r.days_active - 1) * 86400 <= last - first
                /\ last - first < r.days_active * 86400
                /\ ~f.nan /\ f.den > 0
                /\ f.num * r.days_active = r.login_count * f.den
                /\ f.num > 0
                /\ f.num <= r.login_count * f.den
                /\ \A j \in mine : \A c \in StatColumns : rows[j][c] = r[c]

\* A user with two logins more than five days apart: six active days and a
\* third of a login per day on both records.
C29_Witness ==
    /\ upload_pc = "extract_done"
    /\ Len(df_features.rows) = 2
    /\ df_features.rows[1].user_id = df_features.rows[2].user_id
    /\ df_features.rows[2].timestamp.value - df_features.rows[1].timestamp.value = 464400
    /\ \A i \in 1..2 :
        /\ df_features.rows[i].days_active = 6
        /\ df_features.rows[i].login_count = 2
        /\ df_features.rows[i].login_frequency = Rat(1, 3)


\* the records of the summarised table logged at most span seconds before now
InWindow(span) ==
    {i \in DOMAIN sched_df : sched_now - sched_df[i].timestamp <= span}

\* the records among S whose risk score is a number
Scored(S) == {i \in S : ~sched_df[i].risk_score.nan}

\* ten times the sum of the risk scores of the records S (scores are tenths)
TenthsSum(S) ==
    SumOver([i \in DOMAIN sched_df |->
                IF sched_df[i].risk_score.nan THEN 0
                ELSE (sched_df[i].risk_score.num * 10)
                        \div sched_df[i].risk_score.den], S)

\* the mean risk score over the records A is strictly greater than over B
MeanGreater(A, B) ==
    /\ Scored(A) # {}
    /\ Scored(B) # {}
    /\ TenthsSum(Scored(A)) * Cardinality(Scored(B))
         > TenthsSum(Scored(B)) * Cardinality(Scored(A))

ScheduledSummaryCorrect ==
    scheduled_summary # <<>> =>
        LET day == scheduled_summary.last_24_hours
            week == scheduled_summary.last_week
        IN  /\ InWindow(Hours24) \subseteq InWindow(Days7)
            /\ day.total_logins = Cardinality(InWindow(Hours24))
            /\ week.total_logins = Cardinality(InWindow(Days7))
            /\ day.total_logins <= week.total_logins
            /\ day.high_risk_events <= week.high_risk_events
            /\ day.critical_events <= week.critical_events
            /\ day.unique_users <= week.unique_users
            /\ \A w \in {day, week} :
                /\ 0 <= w.critical_events
                /\ w.critical_events <= w.high_risk_events
                /\ w.high_risk_events <= w.total_logins
            /\ scheduled_summary.trends.risk_score_trend
                 \in {"increasing", "decreasing"}
            /\ scheduled_summary.trends.risk_score_trend = "increasing"
                 <=> MeanGreater(InWindow(Hours24), InWindow(Days7))

\* C30: generate_scheduled_report_summary only reads its table; the records of
\* the trailing 24 hours are among those of the trailing 7 days, so each
\* last_24_hours count (total_logins, high_risk_events, critical_events,
\* unique_users) is at most the matching last_week count; within each window
\* critical_events <= high_risk_events <= total_logins; and risk_score_trend is
\* 'increasing' exactly when the 24-hour mean risk score is strictly greater
\* than the 7-day mean, otherwise 'decreasing'.
C30_ScheduledSummary ==
    /\ []ScheduledSummaryCorrect
    /\ [][sched_df' = sched_df /\ sched_now' = sched_now]_vars

\* A summary of a critical login within the last day and a low-risk login six
\* days earlier: one login in the day window, two in the week window, and an
\* increasing risk trend.
C30_Witness ==
    /\ scheduled_summary # <<>>
    /\ scheduled_summary.last_24_hours.total_logins = 1
    /\ scheduled_summary.last_24_hours.critical_events = 1
    /\ scheduled_summary.last_week.total_logins = 2
    /\ scheduled_summary.last_week.high_risk_events = 1
    /\ scheduled_summary.trends.risk_score_trend = "increasing"

====
